---- MODULE Spec2Model ----
(***************************************************************************)
(* klein.storage._sql: the transactional data store (AlchimiaDataStore,    *)
(* Transaction), session authorization (SQLSession.authorize and the       *)
(* authorizers), the account binding (create_account, log_in, log_out,     *)
(* authenticated_accounts), the session store, the IP tracking procurer    *)
(* and the start-up (open, openSessionStore, _populate_schema).            *)
(*                                                                         *)
(* Everything runs on one event loop.  Every `yield` of an inlineCallbacks *)
(* generator is a suspension point: the step before it and the step after  *)
(* it are separate actions, and any other coroutine may run in between.    *)
(***************************************************************************)
EXTENDS Integers, Sequences, FiniteSets, TLC

\* ------------------------------------------------------------------ bounds
MaxCalls == 2        \* sql calls with caller-supplied callables not yet forgotten
MaxValue == 1        \* distinct results a caller-supplied callable may return
MaxAuthz == 1        \* Session.authorize calls made by application code
MaxOps == 2          \* create_account and log_in calls

\* Every authorize may nest two more sql calls; log_in makes up to three.
SlotsNeeded == {MaxCalls, 3 * MaxAuthz, 3 * MaxOps}
Calls == 1..(CHOOSE n \in SlotsNeeded : \A m \in SlotsNeeded : m <= n)
Ops == 1..MaxOps
Values == 1..MaxValue

\* ------------------------------------------------------------------ state
VARIABLES
    pc,        \* sql: where each sql() generator is suspended
    cxn,       \* sql: the local variable cxn of each sql() generator (0: unbound)
    parent,    \* the sql call whose callable started this call (0: top level)
    kind,      \* which callable was passed to sql()
    free,      \* AlchimiaDataStore._free_connections (a deque)
    nconn,     \* connections the engine has handed out so far
    stopped,   \* Transaction._stopped of the Transaction each call constructs
    dbTxn,     \* driver side: state of each call's sqla_txn
    issued,    \* driver side: begin/commit/rollback requests received per call
    callres,   \* how each call's callable ended
    outcome,   \* what the Deferred returned by sql() fired with
    lastExec,  \* the latest Transaction.execute: handle, exception, connection
    arg,       \* what each callable closes over: operation, session, interfaces
    components,\* AlchimiaDataStore._components, in registration order
    az,        \* authorize: progress of each authorizer invoked by a call
    result,    \* authorize: the dict `result` of each authzn callable
    accounts,  \* database: committed rows of table account
    bindings,  \* database: committed rows of table account_session
    pending,   \* database: the uncommitted write of each call's transaction
    nextID,    \* uuid4(): the next account identifier never used before
    op,        \* the coroutines of the operations application code calls
    sessions,  \* database: committed rows of table session
    sessionIP, \* database: committed rows of table session_ip
    tables,    \* database: the tables that exist
    nextSID,   \* urandom(32): the next session identifier never used before
    clock,     \* datetime.utcnow(): the time the next reading returns
    schema,    \* _populate_schema: progress of the loop of each `do` callable
    creators,  \* open: the component creators it was given
    opening,   \* open: the creator invoked next (0: open has returned)
    procurerOf \* open: the session store each creator got from the registry

sqlVars == <<pc, cxn, parent, kind, free, nconn, stopped, dbTxn, issued,
             callres, outcome, lastExec>>
authVars == <<components, az, result>>
tableVars == <<sessions, sessionIP, tables>>
envVars == <<nextSID, clock>>
startVars == <<schema, creators, opening, procurerOf>>
\* The database, and with it what only the session store, the IP tracking
\* and the start-up touch.
dbVars == <<accounts, bindings, pending, tableVars, envVars, startVars>>
acctVars == <<nextID, op>>

vars == <<sqlVars, arg, authVars, dbVars, acctVars>>

\* Results and failures travelling through Deferreds.
Pending == [k |-> "pending", v |-> 0, e |-> ""]
Result(v) == [k |-> "result", v |-> v, e |-> ""]
Failed(e) == [k |-> "failure", v |-> 0, e |-> e]

NoExec == [h |-> 0, raised |-> "", conn |-> 0]

InFlight(c) == pc[c] \in {"beginning", "running", "committing", "rollingback"}

RangeOf(s) == {s[i] : i \in DOMAIN s}

\* ------------------------------------------------------- Transaction.execute
\* Lines 101-103: raise TransactionEnded(self._stopped) if stopped, otherwise
\* hand the statement to the wrapped connection.
ExecuteUnguarded(h) ==
    [h |-> h, raised |-> "", conn |-> cxn[h]]

TransactionExecute(h) ==
    IF stopped[h] # "False"
    THEN [h |-> h, raised |-> stopped[h], conn |-> 0]
    ELSE [h |-> h, raised |-> "", conn |-> cxn[h]]

\* --------------------------------------------------------- AlchimiaDataStore.sql
\* Lines 133-135: pop a free connection, or else wait for engine.connect().
\* With a pooled connection cxn.begin() is requested in the same step.
SqlEnterKeepPooled(c) ==
    /\ pc[c] = "idle"
    /\ IF free # <<>>
       THEN /\ cxn' = [cxn EXCEPT ![c] = Head(free)]
            /\ free' = free
            /\ pc' = [pc EXCEPT ![c] = "beginning"]
            /\ issued' = [issued EXCEPT ![c] = Append(@, "begin")]
       ELSE /\ pc' = [pc EXCEPT ![c] = "connecting"]
            /\ UNCHANGED <<cxn, free, issued>>

\* Lines 133-134 with pop() in place of popleft(): the connection returned
\* last is taken.
SqlEnterPopRight(c) ==
    /\ pc[c] = "idle"
    /\ IF free # <<>>
       THEN /\ cxn' = [cxn EXCEPT ![c] = free[Len(free)]]
            /\ free' = SubSeq(free, 1, Len(free) - 1)
            /\ pc' = [pc EXCEPT ![c] = "beginning"]
            /\ issued' = [issued EXCEPT ![c] = Append(@, "begin")]
       ELSE /\ pc' = [pc EXCEPT ![c] = "connecting"]
            /\ UNCHANGED <<cxn, free, issued>>

SqlEnter(c) ==
    /\ pc[c] = "idle"
    /\ IF free # <<>>
       THEN /\ cxn' = [cxn EXCEPT ![c] = Head(free)]
            /\ free' = Tail(free)
            /\ pc' = [pc EXCEPT ![c] = "beginning"]
            /\ issued' = [issued EXCEPT ![c] = Append(@, "begin")]
       ELSE /\ pc' = [pc EXCEPT ![c] = "connecting"]
            /\ UNCHANGED <<cxn, free, issued>>

\* Lines 149-150: the finally clause, then the Deferred of sql() fires.
SqlExitLeak(c, out) ==
    /\ pc' = [pc EXCEPT ![c] = "done"]
    /\ free' = IF pc[c] = "beginning" THEN free ELSE Append(free, cxn[c])
    /\ outcome' = [outcome EXCEPT ![c] = out]

SqlExit(c, out) ==
    /\ pc' = [pc EXCEPT ![c] = "done"]
    /\ free' = Append(free, cxn[c])
    /\ outcome' = [outcome EXCEPT ![c] = out]

\* Lines 145-147: the callable's Deferred fired with a result.
SqlCallableReturnedRollsBack(c, v) ==
    /\ callres' = [callres EXCEPT ![c] = Result(v)]
    /\ stopped' = [stopped EXCEPT ![c] = "committed"]
    /\ issued' = [issued EXCEPT ![c] = Append(@, "rollback")]
    /\ pc' = [pc EXCEPT ![c] = "rollingback"]

SqlCallableReturned(c, v) ==
    /\ callres' = [callres EXCEPT ![c] = Result(v)]
    /\ stopped' = [stopped EXCEPT ![c] = "committed"]
    /\ issued' = [issued EXCEPT ![c] = Append(@, "commit")]
    /\ pc' = [pc EXCEPT ![c] = "committing"]

\* Lines 139-143: the callable raised, or its Deferred failed.
SqlCallableRaised(c, e) ==
    /\ callres' = [callres EXCEPT ![c] = Failed(e)]
    /\ stopped' = [stopped EXCEPT ![c] = "rolled back"]
    /\ issued' = [issued EXCEPT ![c] = Append(@, "rollback")]
    /\ pc' = [pc EXCEPT ![c] = "rollingback"]

\* ------------------------------------------------------------------ database
\* A transaction's uncommitted write.  The callables of this module write
\* to one table only; what they wrote is kept as one record.
NoWrite == [t |-> "none", id |-> 0, username |-> "", fmt |-> "", pw |-> "",
            session |-> 0]

\* The tables of the schema components of openSessionStore, and the session
\* rows of the sessions in use: session 1 is confidential, session 2 is not.
AllTables == {"session", "account", "account_session", "session_ip"}
InitialSessions ==
    {[id |-> 1, confidential |-> TRUE], [id |-> 2, confidential |-> FALSE]}

NoSchema ==
    [i |-> 0, j |-> 0, raised |-> {}, invoked |-> <<>>, before |-> {}]

\* Committing makes the transaction's write visible to the others.
DbApply(w) ==
    /\ accounts' =
           IF w.t = "insert account"
           THEN accounts \cup {[id |-> w.id, username |-> w.username,
                                fmt |-> w.fmt, pw |-> w.pw]}
           ELSE IF w.t = "update account"
           THEN {IF r.id = w.id THEN [r EXCEPT !.fmt = w.fmt, !.pw = w.pw]
                 ELSE r : r \in accounts}
           ELSE accounts
    /\ bindings' =
           IF w.t = "insert account_session"
           THEN bindings \cup {[id |-> w.id, session |-> w.session]}
           ELSE IF w.t = "delete account_session"
           THEN {b \in bindings : b.session # w.session}
           ELSE bindings
    /\ sessions' =
           IF w.t = "insert session"
           THEN sessions \cup {[id |-> w.id, confidential |-> w.confidential]}
           ELSE IF w.t = "delete session"
           THEN {r \in sessions : r.id \notin w.ids}
           ELSE sessions
    /\ sessionIP' =
           IF w.t = "insert session_ip"
           THEN sessionIP \cup {[session |-> w.session, ip |-> w.ip,
                                 last_used |-> w.last_used]}
           ELSE IF w.t = "update session_ip"
           THEN {IF r.session = w.session /\ r.ip = w.ip
                 THEN [r EXCEPT !.last_used = w.last_used]
                 ELSE r : r \in sessionIP}
           ELSE sessionIP
    /\ tables' = IF w.t = "create table" THEN tables \cup w.names ELSE tables

DbCommit(c) ==
    /\ DbApply(pending[c])
    /\ pending' = [pending EXCEPT ![c] = NoWrite]
    /\ UNCHANGED <<envVars, startVars>>

DbDiscard(c) ==
    /\ pending' = [pending EXCEPT ![c] = NoWrite]
    /\ UNCHANGED <<accounts, bindings, tableVars, envVars, startVars>>

\* ------------------------------------------------------------------ actions
\* Some code calls datastore.sql(callable) with a callable of its own, from
\* anywhere: also from inside the callable of a call that is running.
StartSql(c) ==
    /\ c <= MaxCalls
    /\ SqlEnter(c)
    /\ kind' = [kind EXCEPT ![c] = "generic"]
    /\ lastExec' = NoExec
    /\ UNCHANGED <<parent, nconn, stopped, dbTxn, callres, outcome>>
    /\ UNCHANGED <<arg, authVars, dbVars, acctVars>>

\* Line 134: engine.connect() fired with a new connection; line 135 asks it
\* to begin a transaction.
ConnectOk(c) ==
    /\ pc[c] = "connecting"
    /\ nconn' = nconn + 1
    /\ cxn' = [cxn EXCEPT ![c] = nconn + 1]
    /\ issued' = [issued EXCEPT ![c] = Append(@, "begin")]
    /\ pc' = [pc EXCEPT ![c] = "beginning"]
    /\ lastExec' = NoExec
    /\ UNCHANGED <<parent, kind, free, stopped, dbTxn, callres, outcome>>
    /\ UNCHANGED <<arg, authVars, dbVars, acctVars>>

\* Line 134: engine.connect() failed.  cxn was never bound, so line 150
\* raises UnboundLocalError in place of the connection error.
ConnectFail(c) ==
    /\ pc[c] = "connecting"
    /\ pc' = [pc EXCEPT ![c] = "done"]
    /\ outcome' = [outcome EXCEPT ![c] = Failed("UnboundLocalError")]
    /\ lastExec' = NoExec
    /\ UNCHANGED <<cxn, parent, kind, free, nconn, stopped, dbTxn, issued,
                   callres>>
    /\ UNCHANGED <<arg, authVars, dbVars, acctVars>>

\* Lines 135-138: the transaction began; Transaction(cxn) is constructed
\* and the callable is invoked with it.  (The authzn callable runs its loop
\* at once: BeginOkAuthzn.)
BeginOk(c) ==
    /\ pc[c] = "beginning"
    /\ kind[c] \notin {"authzn", "touch", "do"}
    /\ dbTxn' = [dbTxn EXCEPT ![c] = "open"]
    /\ stopped' = [stopped EXCEPT ![c] = "False"]
    /\ pc' = [pc EXCEPT ![c] = "running"]
    /\ lastExec' = NoExec
    /\ UNCHANGED <<cxn, parent, kind, free, nconn, issued, callres, outcome>>
    /\ UNCHANGED <<arg, authVars, dbVars, acctVars>>

\* Line 135: cxn.begin() failed; only the finally clause runs.
BeginFail(c) ==
    /\ pc[c] = "beginning"
    /\ SqlExit(c, Failed("beginError"))
    /\ dbTxn' = [dbTxn EXCEPT ![c] = "failed"]
    /\ lastExec' = NoExec
    /\ UNCHANGED <<cxn, parent, kind, nconn, stopped, issued, callres>>
    /\ UNCHANGED <<arg, authVars, dbVars, acctVars>>

\* Anyone holding the Transaction of call h calls execute on it: the callable
\* while it runs, or code that kept the handle after sql() finished.
Execute(h) ==
    /\ kind[h] = "generic"
    /\ stopped[h] # "none"
    /\ lastExec' = TransactionExecute(h)
    /\ UNCHANGED <<pc, cxn, parent, kind, free, nconn, stopped, dbTxn, issued,
                   callres, outcome>>
    /\ UNCHANGED <<arg, authVars, dbVars, acctVars>>

\* Line 138: a caller-supplied callable's Deferred fires with a value.
GenericReturn(c, v) ==
    /\ kind[c] = "generic"
    /\ pc[c] = "running"
    /\ SqlCallableReturned(c, v)
    /\ lastExec' = NoExec
    /\ UNCHANGED <<cxn, parent, kind, free, nconn, dbTxn, outcome>>
    /\ UNCHANGED <<arg, authVars, dbVars, acctVars>>

\* Line 138: a caller-supplied callable raises or its Deferred fails.
GenericRaise(c) ==
    /\ kind[c] = "generic"
    /\ pc[c] = "running"
    /\ SqlCallableRaised(c, "callableError")
    /\ lastExec' = NoExec
    /\ UNCHANGED <<cxn, parent, kind, free, nconn, dbTxn, outcome>>
    /\ UNCHANGED <<arg, authVars, dbVars, acctVars>>

\* Lines 147-150: commit succeeded; returnValue(result), then finally.
CommitOk(c) ==
    /\ pc[c] = "committing"
    /\ dbTxn' = [dbTxn EXCEPT ![c] = "committed"]
    /\ DbCommit(c)
    /\ SqlExit(c, Result(callres[c].v))
    /\ lastExec' = NoExec
    /\ UNCHANGED <<cxn, parent, kind, nconn, stopped, issued, callres>>
    /\ UNCHANGED <<arg, authVars, acctVars>>

\* Line 147: commit failed; the exception leaves through finally.
CommitFail(c) ==
    /\ pc[c] = "committing"
    /\ dbTxn' = [dbTxn EXCEPT ![c] = "failed"]
    /\ DbDiscard(c)
    /\ SqlExit(c, Failed("commitError"))
    /\ lastExec' = NoExec
    /\ UNCHANGED <<cxn, parent, kind, nconn, stopped, issued, callres>>
    /\ UNCHANGED <<arg, authVars, acctVars>>

\* Lines 143-144, 150: rollback succeeded; returnValue(failure) makes the
\* Deferred of sql() fail with the callable's failure.
RollbackOk(c) ==
    /\ pc[c] = "rollingback"
    /\ dbTxn' = [dbTxn EXCEPT ![c] = "rolled back"]
    /\ DbDiscard(c)
    /\ SqlExit(c, Failed(callres[c].e))
    /\ lastExec' = NoExec
    /\ UNCHANGED <<cxn, parent, kind, nconn, stopped, issued, callres>>
    /\ UNCHANGED <<arg, authVars, acctVars>>

\* Line 143: rollback failed; its exception replaces the captured failure.
RollbackFail(c) ==
    /\ pc[c] = "rollingback"
    /\ dbTxn' = [dbTxn EXCEPT ![c] = "failed"]
    /\ DbDiscard(c)
    /\ SqlExit(c, Failed("rollbackError"))
    /\ lastExec' = NoExec
    /\ UNCHANGED <<cxn, parent, kind, nconn, stopped, issued, callres>>
    /\ UNCHANGED <<arg, authVars, acctVars>>

\* ------------------------------------------------------- Session.authorize
\* Values an authorizer produces for a session, and the Deferred that stands
\* in the dict until an asynchronous authorizer fires (line 64).
Binding(s) == [t |-> "AccountSessionBinding", n |-> s]
Account(a) == [t |-> "SQLAccount", n |-> a]
None == [t |-> "None", n |-> 0]
Custom(i) == [t |-> "custom", n |-> i]
Deferred(i) == [t |-> "Deferred", n |-> i]

\* The components openSessionStore registers (lines 690-698), and components
\* made with authorizerFor (lines 730-768) whose decorated function returns
\* a value at once ("sync") or a Deferred ("async").
SessionStoreC == [cls |-> "AlchimiaSessionStore", cap |-> "", mode |-> ""]
BindingPluginC == [cls |-> "AccountBindingStorePlugin",
                   cap |-> "ISimpleAccountBinding", mode |-> "sync"]
IPTrackingC == [cls |-> "IPTrackingProcurer", cap |-> "", mode |-> ""]
LoginAuthorizerC == [cls |-> "AccountLoginAuthorizer",
                     cap |-> "ISimpleAccount", mode |-> "async"]
FooSyncC == [cls |-> "AnAuthorizer", cap |-> "IFoo", mode |-> "sync"]
FooAsyncC == [cls |-> "AnAuthorizer", cap |-> "IFoo", mode |-> "async"]

DefaultComponents ==
    <<SessionStoreC, BindingPluginC, IPTrackingC, LoginAuthorizerC>>
Registries ==
    {DefaultComponents,
     DefaultComponents \o <<FooAsyncC>>,
     DefaultComponents \o <<FooSyncC, FooAsyncC>>}

ComponentIndexes == 1..(Len(DefaultComponents) + 2)

Caps == {"ISimpleAccountBinding", "ISimpleAccount", "IFoo", "IBar"}
\* What application code asks for: the binding and an interface nobody
\* provides; or everything.
Requests == {{"ISimpleAccountBinding", "IBar"}, Caps}
SessionIDs == {1, 2}

\* Line 56: componentsProviding(ISQLAuthorizer), as indexes into the registry.
IsAuthorizer(a) == a.cap # ""

\* Line 60: the authorizer is for one of the requested interfaces.
AuthznMatchesAny(a, ifaces) == IsAuthorizer(a)

AuthznMatches(a, ifaces) == IsAuthorizer(a) /\ a.cap \in ifaces

\* result.__setitem__ (lines 64 and 66).
SetItem(f, k, v) == [x \in DOMAIN f \cup {k} |-> IF x = k THEN v ELSE f[x]]

\* Lines 54-68: the loop of the authzn callable over the registry from
\* component i on.  A synchronous authorizer's value is in the dict when
\* the loop moves on; an asynchronous one leaves its Deferred there.
RECURSIVE AuthznLoop(_, _, _, _)
AuthznLoop(i, ifaces, s, acc) ==
    IF i > Len(components) THEN acc
    ELSE LET a == components[i] IN
         IF ~AuthznMatches(a, ifaces)
         THEN AuthznLoop(i + 1, ifaces, s,
                         [acc EXCEPT !.az = Append(@, "-")])
         ELSE IF a.mode = "sync"
         THEN AuthznLoop(i + 1, ifaces, s,
                  [res |-> SetItem(acc.res, a.cap,
                                   IF a.cls = "AccountBindingStorePlugin"
                                   THEN Binding(s) ELSE Custom(i)),
                   az |-> Append(acc.az, "done")])
         ELSE AuthznLoop(i + 1, ifaces, s,
                  [res |-> SetItem(acc.res, a.cap, Deferred(i)),
                   az |-> Append(acc.az, "invoked")])

\* gatherResults(ds) has fired: no Deferred of ds is outstanding.
AllFired(tasks) == \A i \in DOMAIN tasks : tasks[i] \in {"-", "done"}

\* Names of the sql calls: application code's k-th authorize is call 3k-2,
\* the authorize nested in it 3k-1, its authenticated_accounts 3k.
IsTopSlot(c) ==
    /\ c % 3 = 1 /\ c <= 3 * MaxAuthz
    /\ pc[c] = "idle"
    /\ \A x \in Calls : (x % 3 = 1 /\ x < c) => pc[x] # "idle"

\* Application code calls session.authorize(ifaces) on session s.
Authorize(c, s, ifaces) ==
    /\ IsTopSlot(c)
    /\ SqlEnter(c)
    /\ kind' = [kind EXCEPT ![c] = "authzn"]
    /\ arg' = [arg EXCEPT ![c] = [op |-> 0, session |-> s, ifaces |-> ifaces]]
    /\ lastExec' = NoExec
    /\ UNCHANGED <<parent, nconn, stopped, dbTxn, callres, outcome>>
    /\ UNCHANGED <<authVars, dbVars, acctVars>>

\* Lines 135-138 with the authzn callable (lines 53-71): the transaction
\* began and the callable ran its loop.  If nothing is outstanding its
\* Deferred has fired already and sql goes on to commit (lines 146-147).
BeginOkAuthzn(c) ==
    /\ pc[c] = "beginning"
    /\ kind[c] = "authzn"
    /\ dbTxn' = [dbTxn EXCEPT ![c] = "open"]
    /\ LET r == AuthznLoop(1, arg[c].ifaces, arg[c].session,
                           [res |-> <<>>, az |-> <<>>]) IN
       /\ result' = [result EXCEPT ![c] = r.res]
       /\ az' = [az EXCEPT ![c] = r.az]
       /\ IF AllFired(r.az)
          THEN SqlCallableReturned(c, r.res)
          ELSE /\ stopped' = [stopped EXCEPT ![c] = "False"]
               /\ pc' = [pc EXCEPT ![c] = "running"]
               /\ UNCHANGED <<issued, callres>>
    /\ lastExec' = NoExec
    /\ UNCHANGED <<cxn, parent, kind, free, nconn, outcome>>
    /\ UNCHANGED <<arg, components, dbVars, acctVars>>

\* Lines 65-71 without the callback of gatherResults: the value is stored
\* and the callable's Deferred never fires.
TaskFiredNeverGathered(c, i, v) ==
    /\ result' = [result EXCEPT ![c] = SetItem(result[c], components[i].cap, v)]
    /\ az' = [az EXCEPT ![c] = [az[c] EXCEPT ![i] = "done"]]
    /\ UNCHANGED <<pc, stopped, issued, callres>>

\* Lines 65-71: an authorizer's Deferred fired with v; the callback stores
\* it in the dict, and when it was the last one outstanding gatherResults
\* fires and the callable's Deferred fires with the dict.
TaskFired(c, i, v) ==
    LET res == SetItem(result[c], components[i].cap, v)
        tasks == [az[c] EXCEPT ![i] = "done"] IN
    /\ result' = [result EXCEPT ![c] = res]
    /\ az' = [az EXCEPT ![c] = tasks]
    /\ IF AllFired(tasks) /\ pc[c] = "running"
       THEN SqlCallableReturned(c, res)
       ELSE UNCHANGED <<pc, stopped, issued, callres>>

\* Lines 71, 139-143: an authorizer's Deferred failed; gatherResults fails
\* with FirstError and so does the callable.
TaskFailed(c, i) ==
    /\ az' = [az EXCEPT ![c] = [@ EXCEPT ![i] = "failed"]]
    /\ UNCHANGED result
    /\ IF pc[c] = "running"
       THEN SqlCallableRaised(c, "FirstError")
       ELSE UNCHANGED <<pc, stopped, issued, callres>>

\* Line 578: AccountLoginAuthorizer asks the session to authorize the
\* account binding: a new sql call d, made while call c runs.
LoginAuthorizerAuthorize(c, i) ==
    LET d == c + 1 IN
    /\ i \in DOMAIN az[c]
    /\ az[c][i] = "invoked"
    /\ components[i].cls = "AccountLoginAuthorizer"
    /\ d \in Calls /\ pc[d] = "idle"
    /\ SqlEnter(d)
    /\ kind' = [kind EXCEPT ![d] = "authzn"]
    /\ parent' = [parent EXCEPT ![d] = c]
    /\ arg' = [arg EXCEPT ![d] = [op |-> 0, session |-> arg[c].session,
                                  ifaces |-> {"ISimpleAccountBinding"}]]
    /\ az' = [az EXCEPT ![c] = [@ EXCEPT ![i] = "authorizing"]]
    /\ lastExec' = NoExec
    /\ UNCHANGED <<nconn, stopped, dbTxn, callres, outcome>>
    /\ UNCHANGED <<components, result, dbVars, acctVars>>

\* Lines 578-580: the nested authorize d fired; the binding is taken from
\* its dict and binding.authenticated_accounts() (lines 394-415) makes
\* another sql call e.
LoginAuthorizerAccounts(c, i) ==
    LET d == c + 1
        e == c + 2 IN
    /\ i \in DOMAIN az[c]
    /\ az[c][i] = "authorizing"
    /\ parent[d] = c /\ kind[d] = "authzn" /\ pc[d] = "done"
    /\ e \in Calls /\ pc[e] = "idle"
    /\ lastExec' = NoExec
    /\ IF outcome[d].k = "result"
          /\ "ISimpleAccountBinding" \in DOMAIN outcome[d].v
       THEN /\ SqlEnter(e)
            /\ kind' = [kind EXCEPT ![e] = "authenticated_accounts"]
            /\ parent' = [parent EXCEPT ![e] = c]
            /\ arg' = [arg EXCEPT ![e] =
                          [op |-> 0, ifaces |-> {},
                           session |-> outcome[d].v["ISimpleAccountBinding"].n]]
            /\ az' = [az EXCEPT ![c] = [@ EXCEPT ![i] = "listing"]]
            /\ UNCHANGED <<nconn, stopped, dbTxn, callres, outcome>>
            /\ UNCHANGED <<components, result, dbVars, acctVars>>
       ELSE /\ TaskFailed(c, i)
            /\ UNCHANGED <<cxn, parent, kind, free, nconn, dbTxn, outcome>>
            /\ UNCHANGED <<arg, components, dbVars, acctVars>>

\* Lines 403-409: the accounts joined to the session's rows of
\* account_session, as the database has them committed.
AccountsOf(s) ==
    {r.id : r \in {a \in accounts :
                      \E b \in bindings : b.id = a.id /\ b.session = s}}

\* Lines 402-414: the callable of authenticated_accounts executes the join
\* on its own transaction, fetches the rows and returns the accounts.
AuthenticatedAccountsSelect(e) ==
    /\ pc[e] = "running"
    /\ kind[e] = "authenticated_accounts"
    /\ lastExec' = TransactionExecute(e)
    /\ SqlCallableReturned(e, AccountsOf(arg[e].session))
    /\ UNCHANGED <<cxn, parent, kind, free, nconn, dbTxn, outcome>>
    /\ UNCHANGED <<arg, authVars, dbVars, acctVars>>

\* Lines 580-581: authenticated_accounts fired; the authorizer's value is
\* the first account of the list (in the order the database returned the
\* rows), or None.
LoginAuthorizerDone(c, i) ==
    LET e == c + 2 IN
    /\ i \in DOMAIN az[c]
    /\ az[c][i] = "listing"
    /\ parent[e] = c /\ kind[e] = "authenticated_accounts" /\ pc[e] = "done"
    /\ lastExec' = NoExec
    /\ IF outcome[e].k = "result"
       THEN \E v \in IF outcome[e].v = {} THEN {None}
                     ELSE {Account(a) : a \in outcome[e].v} :
                TaskFired(c, i, v)
       ELSE TaskFailed(c, i)
    /\ UNCHANGED <<cxn, parent, kind, free, nconn, dbTxn, outcome>>
    /\ UNCHANGED <<arg, components, dbVars, acctVars>>

\* Lines 762-764: the decorated function of an authorizerFor component used
\* the transaction it was given and its Deferred fires.
CustomAuthorizerFire(c, i) ==
    /\ i \in DOMAIN az[c]
    /\ az[c][i] = "invoked"
    /\ components[i].cls = "AnAuthorizer"
    /\ lastExec' = TransactionExecute(c)
    /\ TaskFired(c, i, Custom(i))
    /\ UNCHANGED <<cxn, parent, kind, free, nconn, dbTxn, outcome>>
    /\ UNCHANGED <<arg, components, dbVars, acctVars>>

\* ---------------------------------------------------- AccountSessionBinding
Usernames == {"alice", "bob"}
Passwords == {"pw1", "pw2"}

NoRow == [id |-> 0, username |-> "", fmt |-> "", pw |-> ""]

\* security.computeKeyText: a salted hash in the current format.  A hash is
\* modelled by its format and the password it verifies.
ComputeKeyText(password) == [fmt |-> "current", pw |-> password]

\* security.checkAndReset: whether the password verifies against the stored
\* hash, and the new hash handed to the resetter when it does and the stored
\* hash is in a legacy format.
CheckAndReset(row, password) ==
    [valid |-> row.pw = password,
     rehash |-> row.pw = password /\ row.fmt = "legacy"]

\* Names of the sql calls of operation o: store or retrieve, storenew,
\* createrow.
FirstCall(o) == 3 * o - 2
ResetCall(o) == 3 * o - 1
BindCall(o) == 3 * o

StartOp(o, type, u, p, s) ==
    [type |-> type, st |-> "started", username |-> u, pw |-> p,
     session |-> s, call |-> 0, row |-> NoRow,
     after |-> {x \in Ops : op[x].st = "done"}, res |-> Pending]

\* sql(callable) called by operation o with one of its own callables.
OpSql(o, c, k) ==
    /\ SqlEnter(c)
    /\ kind' = [kind EXCEPT ![c] = k]
    /\ arg' = [arg EXCEPT ![c] = [op |-> o, session |-> op[o].session,
                                  ifaces |-> {}]]
    /\ lastExec' = NoExec
    /\ UNCHANGED <<parent, nconn, stopped, dbTxn, callres, outcome>>

\* Another transaction holds an uncommitted write on the same unique key:
\* the database makes the statement wait for that transaction to end.
Blocked(c, w) ==
    \E d \in Calls \ {c} :
        /\ pending[d].t = w.t
        /\ w.t = "insert account" => pending[d].username = w.username
        /\ w.t = "update account" => pending[d].id = w.id
        /\ w.t = "insert account_session" =>
               pending[d].id = w.id /\ pending[d].session = w.session

\* Line 322: create_account(username, email, password) on the binding of
\* session s; computeKeyText is computing.  (The e-mail address is stored
\* and never read: it is left out.)
CreateAccountStart(o, u, p, s) ==
    /\ op[o].st = "idle"
    /\ \A x \in Ops : x < o => op[x].st # "idle"
    /\ op' = [op EXCEPT ![o] =
                 [StartOp(o, "create_account", u, p, s) EXCEPT !.st = "hashing"]]
    /\ lastExec' = NoExec
    /\ UNCHANGED <<pc, cxn, parent, kind, free, nconn, stopped, dbTxn, issued,
                   callres, outcome>>
    /\ UNCHANGED <<arg, authVars, dbVars, nextID>>

\* Lines 322-337: the hash is there; sql(store).
CreateAccountStore(o) ==
    /\ op[o].st = "hashing"
    /\ OpSql(o, FirstCall(o), "store")
    /\ op' = [op EXCEPT ![o].st = "storing", ![o].call = FirstCall(o)]
    /\ UNCHANGED <<authVars, dbVars, nextID>>

\* Lines 326-336 when IntegrityError is not caught: it leaves the callable.
StoreInsertRaises(c) ==
    LET o == arg[c].op
        w == [t |-> "insert account", id |-> nextID,
              username |-> op[o].username, fmt |-> "current",
              pw |-> op[o].pw, session |-> 0] IN
    /\ pc[c] = "running"
    /\ kind[c] = "store"
    /\ ~Blocked(c, w)
    /\ nextID' = nextID + 1
    /\ IF \E r \in accounts : r.username = w.username
       THEN /\ SqlCallableRaised(c, "IntegrityError")
            /\ UNCHANGED pending
       ELSE /\ pending' = [pending EXCEPT ![c] = w]
            /\ SqlCallableReturned(c, w.id)
    /\ lastExec' = NoExec
    /\ UNCHANGED <<cxn, parent, kind, free, nconn, dbTxn, outcome>>
    /\ UNCHANGED <<arg, authVars, accounts, bindings, op>>
    /\ UNCHANGED <<tableVars, envVars, startVars>>

\* Lines 326-336: the callable store.  The insert of a username the table
\* has raises IntegrityError, which the callable turns into None; otherwise
\* the row is written and the callable returns the new accountID.
StoreInsert(c) ==
    LET o == arg[c].op
        w == [t |-> "insert account", id |-> nextID,
              username |-> op[o].username,
              fmt |-> ComputeKeyText(op[o].pw).fmt,
              pw |-> ComputeKeyText(op[o].pw).pw, session |-> 0] IN
    /\ pc[c] = "running"
    /\ kind[c] = "store"
    /\ ~Blocked(c, w)
    /\ nextID' = nextID + 1
    /\ IF \E r \in accounts : r.username = w.username
       THEN /\ SqlCallableReturned(c, 0)
            /\ UNCHANGED pending
       ELSE /\ pending' = [pending EXCEPT ![c] = w]
            /\ SqlCallableReturned(c, w.id)
    /\ lastExec' = NoExec
    /\ UNCHANGED <<cxn, parent, kind, free, nconn, dbTxn, outcome>>
    /\ UNCHANGED <<arg, authVars, accounts, bindings, op>>
    /\ UNCHANGED <<tableVars, envVars, startVars>>

\* Lines 337-341: sql(store) fired; None, or the Account of the new
\* accountID (a failure of sql leaves create_account as it is).
CreateAccountDone(o) ==
    /\ op[o].st = "storing"
    /\ pc[op[o].call] = "done"
    /\ op' = [op EXCEPT ![o].st = "done", ![o].res = outcome[op[o].call]]
    /\ lastExec' = NoExec
    /\ UNCHANGED <<pc, cxn, parent, kind, free, nconn, stopped, dbTxn, issued,
                   callres, outcome>>
    /\ UNCHANGED <<arg, authVars, dbVars, nextID>>

\* Lines 359-367: log_in(username, password) on the binding of session s;
\* sql(retrieve).
LogInStart(o, u, p, s) ==
    /\ op[o].st = "idle"
    /\ \A x \in Ops : x < o => op[x].st # "idle"
    /\ SqlEnter(FirstCall(o))
    /\ kind' = [kind EXCEPT ![FirstCall(o)] = "retrieve"]
    /\ arg' = [arg EXCEPT ![FirstCall(o)] =
                  [op |-> o, session |-> s, ifaces |-> {}]]
    /\ op' = [op EXCEPT ![o] =
                 [StartOp(o, "log_in", u, p, s) EXCEPT
                      !.st = "retrieving", !.call = FirstCall(o)]]
    /\ lastExec' = NoExec
    /\ UNCHANGED <<parent, nconn, stopped, dbTxn, callres, outcome>>
    /\ UNCHANGED <<authVars, dbVars, nextID>>

\* Lines 362-366: the callable retrieve selects the account rows of the
\* username and fetches them.
RetrieveSelect(c) ==
    /\ pc[c] = "running"
    /\ kind[c] = "retrieve"
    /\ SqlCallableReturned(c, {r \in accounts :
                                  r.username = op[arg[c].op].username})
    /\ lastExec' = NoExec
    /\ UNCHANGED <<cxn, parent, kind, free, nconn, dbTxn, outcome>>
    /\ UNCHANGED <<arg, authVars, dbVars, acctVars>>

\* Lines 367-387: sql(retrieve) fired.  No row: None.  Otherwise the row is
\* unpacked and checkAndReset verifies the password in a thread.
LogInCheck(o) ==
    LET out == outcome[op[o].call] IN
    /\ op[o].st = "retrieving"
    /\ pc[op[o].call] = "done"
    /\ op' = IF out.k = "failure"
             THEN [op EXCEPT ![o].st = "done", ![o].res = out]
             ELSE IF out.v = {}
             THEN [op EXCEPT ![o].st = "done", ![o].res = Result(0)]
             ELSE [op EXCEPT ![o].st = "checking",
                             ![o].row = CHOOSE r \in out.v : TRUE]
    /\ lastExec' = NoExec
    /\ UNCHANGED <<pc, cxn, parent, kind, free, nconn, stopped, dbTxn, issued,
                   callres, outcome>>
    /\ UNCHANGED <<arg, authVars, dbVars, nextID>>

\* Lines 385-390 without the test of checkAndReset's result.
LogInVerifiedUnchecked(o) ==
    /\ op[o].st = "checking"
    /\ OpSql(o, BindCall(o), "createrow")
    /\ op' = [op EXCEPT ![o].st = "binding", ![o].call = BindCall(o)]
    /\ UNCHANGED <<authVars, dbVars, nextID>>

\* Lines 375-390: checkAndReset has verified.  A wrong password: log_in
\* returns None.  A legacy hash: the resetter makes sql(storenew).
\* Otherwise account.add_session makes sql(createrow) (lines 482-493).
LogInVerified(o) ==
    LET r == CheckAndReset(op[o].row, op[o].pw) IN
    /\ op[o].st = "checking"
    /\ IF ~r.valid
       THEN /\ op' = [op EXCEPT ![o].st = "done", ![o].res = Result(0)]
            /\ lastExec' = NoExec
            /\ UNCHANGED <<pc, cxn, parent, kind, free, nconn, stopped, dbTxn,
                           issued, callres, outcome, arg>>
       ELSE IF r.rehash
       THEN /\ OpSql(o, ResetCall(o), "storenew")
            /\ op' = [op EXCEPT ![o].st = "resetting",
                                ![o].call = ResetCall(o)]
       ELSE /\ OpSql(o, BindCall(o), "createrow")
            /\ op' = [op EXCEPT ![o].st = "binding", ![o].call = BindCall(o)]
    /\ UNCHANGED <<authVars, dbVars, nextID>>

\* Lines 377-382: the callable storenew updates passwordBlob of the
\* account.
StoreNewUpdate(c) ==
    LET o == arg[c].op
        w == [t |-> "update account", id |-> op[o].row.id,
              username |-> op[o].row.username,
              fmt |-> ComputeKeyText(op[o].pw).fmt,
              pw |-> ComputeKeyText(op[o].pw).pw, session |-> 0] IN
    /\ pc[c] = "running"
    /\ kind[c] = "storenew"
    /\ ~Blocked(c, w)
    /\ pending' = [pending EXCEPT ![c] = w]
    /\ SqlCallableReturned(c, 0)
    /\ lastExec' = NoExec
    /\ UNCHANGED <<cxn, parent, kind, free, nconn, dbTxn, outcome>>
    /\ UNCHANGED <<arg, authVars, accounts, bindings, acctVars>>
    /\ UNCHANGED <<tableVars, envVars, startVars>>

\* Lines 385-390: sql(storenew) fired and checkAndReset with it;
\* account.add_session makes sql(createrow).
LogInReset(o) ==
    /\ op[o].st = "resetting"
    /\ pc[op[o].call] = "done"
    /\ IF outcome[op[o].call].k = "failure"
       THEN /\ op' = [op EXCEPT ![o].st = "done",
                                ![o].res = outcome[op[o].call]]
            /\ lastExec' = NoExec
            /\ UNCHANGED <<pc, cxn, parent, kind, free, nconn, stopped, dbTxn,
                           issued, callres, outcome, arg>>
       ELSE /\ OpSql(o, BindCall(o), "createrow")
            /\ op' = [op EXCEPT ![o].st = "binding", ![o].call = BindCall(o)]
    /\ UNCHANGED <<authVars, dbVars, nextID>>

\* Lines 487-492: the callable createrow inserts (accountID, sessionID)
\* into account_session; a pair the table has raises IntegrityError.
CreateRowInsert(c) ==
    LET o == arg[c].op
        w == [t |-> "insert account_session", id |-> op[o].row.id,
              username |-> "", fmt |-> "", pw |-> "",
              session |-> op[o].session] IN
    /\ pc[c] = "running"
    /\ kind[c] = "createrow"
    /\ ~Blocked(c, w)
    /\ IF [id |-> w.id, session |-> w.session] \in bindings
       THEN /\ SqlCallableRaised(c, "IntegrityError")
            /\ UNCHANGED pending
       ELSE /\ pending' = [pending EXCEPT ![c] = w]
            /\ SqlCallableReturned(c, 0)
    /\ lastExec' = NoExec
    /\ UNCHANGED <<cxn, parent, kind, free, nconn, dbTxn, outcome>>
    /\ UNCHANGED <<arg, authVars, accounts, bindings, acctVars>>
    /\ UNCHANGED <<tableVars, envVars, startVars>>

\* Lines 388-391 returning None in place of the account.
LogInDoneNone(o) ==
    /\ op[o].st = "binding"
    /\ pc[op[o].call] = "done"
    /\ op' = [op EXCEPT ![o].st = "done", ![o].res = Result(0)]
    /\ lastExec' = NoExec
    /\ UNCHANGED <<pc, cxn, parent, kind, free, nconn, stopped, dbTxn, issued,
                   callres, outcome>>
    /\ UNCHANGED <<arg, authVars, dbVars, nextID>>

\* Lines 388-391: sql(createrow) fired; log_in returns the account built
\* from the retrieved row (or fails as add_session failed).
LogInDone(o) ==
    /\ op[o].st = "binding"
    /\ pc[op[o].call] = "done"
    /\ op' = [op EXCEPT ![o].st = "done",
                        ![o].res = IF outcome[op[o].call].k = "failure"
                                   THEN outcome[op[o].call]
                                   ELSE Result(op[o].row.id)]
    /\ lastExec' = NoExec
    /\ UNCHANGED <<pc, cxn, parent, kind, free, nconn, stopped, dbTxn, issued,
                   callres, outcome>>
    /\ UNCHANGED <<arg, authVars, dbVars, nextID>>

\* --------------------------------------- operations that are one sql call
\* authenticated_accounts, log_out, newSession, loadSession and
\* sent_insecurely return the Deferred of sql(callable) itself.
SqlOpStart(o, type, a) ==
    /\ op[o].st = "idle"
    /\ \A x \in Ops : x < o => op[x].st # "idle"
    /\ SqlEnter(FirstCall(o))
    /\ arg' = [arg EXCEPT ![FirstCall(o)] = a]
    /\ op' = [op EXCEPT ![o] =
                 [type |-> type, st |-> "called", session |-> a.session,
                  call |-> FirstCall(o),
                  after |-> {x \in Ops : op[x].st = "done"},
                  res |-> Pending]]
    /\ lastExec' = NoExec
    /\ UNCHANGED <<parent, nconn, stopped, dbTxn, callres, outcome>>
    /\ UNCHANGED <<authVars, dbVars, nextID>>

\* The Deferred of sql() has fired: the caller has the operation's result.
SqlOpDone(o) ==
    /\ op[o].st = "called"
    /\ pc[op[o].call] = "done"
    /\ op' = [op EXCEPT ![o].st = "done", ![o].res = outcome[op[o].call]]
    /\ lastExec' = NoExec
    /\ UNCHANGED <<pc, cxn, parent, kind, free, nconn, stopped, dbTxn, issued,
                   callres, outcome>>
    /\ UNCHANGED <<arg, authVars, dbVars, nextID>>

\* Lines 394-415: binding.authenticated_accounts() on the binding of session
\* s, called by application code.
AuthenticatedAccountsStart(o, s) ==
    /\ SqlOpStart(o, "authenticated_accounts",
                  [op |-> o, session |-> s, ifaces |-> {}])
    /\ kind' = [kind EXCEPT ![FirstCall(o)] = "authenticated_accounts"]

\* Lines 453-465: binding.log_out() on the binding of session s.
LogOutStart(o, s) ==
    /\ SqlOpStart(o, "log_out", [op |-> o, session |-> s, ifaces |-> {}])
    /\ kind' = [kind EXCEPT ![FirstCall(o)] = "log_out"]

\* Lines 460-464: the callable of log_out deletes the account_session rows
\* of the session.
LogOutDelete(c) ==
    /\ pc[c] = "running"
    /\ kind[c] = "log_out"
    /\ pending' = [pending EXCEPT ![c] =
                      [t |-> "delete account_session",
                       session |-> arg[c].session]]
    /\ SqlCallableReturned(c, 0)
    /\ lastExec' = TransactionExecute(c)
    /\ UNCHANGED <<cxn, parent, kind, free, nconn, dbTxn, outcome>>
    /\ UNCHANGED <<arg, authVars, accounts, bindings, acctVars>>
    /\ UNCHANGED <<tableVars, envVars, startVars>>

\* ------------------------------------------------------ AlchimiaSessionStore
\* Identifiers a caller may present: those of the sessions there are, those
\* newSession may hand out, of which some never get a row.
LoadableIDs == 1..(Cardinality(InitialSessions) + MaxOps)
TokenSets == (SUBSET {r.id : r \in InitialSessions}) \ {{}}

StoreArg(o, id, conf, tokens) ==
    [op |-> o, session |-> id, ifaces |-> {}, confidential |-> conf,
     tokens |-> tokens]

\* The SQLSession objects newSession and loadSession return
\* (authenticatedBy is only passed through: it is left out).
SQLSession(id, conf) == [id |-> id, confidential |-> conf]

\* Lines 258-272: newSession(isConfidential, authenticatedBy).
NewSessionStart(o, conf) ==
    /\ SqlOpStart(o, "newSession", StoreArg(o, 0, conf, {}))
    /\ kind' = [kind EXCEPT ![FirstCall(o)] = "created"]

\* Lines 261-271: the callable created draws an identifier, inserts the
\* row and returns the session.
NewSessionInsert(c) ==
    /\ pc[c] = "running"
    /\ kind[c] = "created"
    /\ nextSID' = nextSID + 1
    /\ pending' = [pending EXCEPT ![c] =
                      [t |-> "insert session", id |-> nextSID,
                       confidential |-> arg[c].confidential]]
    /\ SqlCallableReturned(c, SQLSession(nextSID, arg[c].confidential))
    /\ lastExec' = TransactionExecute(c)
    /\ UNCHANGED <<cxn, parent, kind, free, nconn, dbTxn, outcome>>
    /\ UNCHANGED <<arg, authVars, accounts, bindings, acctVars>>
    /\ UNCHANGED <<tableVars, clock, startVars>>

\* Lines 275-291: loadSession(identifier, isConfidential, authenticatedBy).
LoadSessionStart(o, id, conf) ==
    /\ SqlOpStart(o, "loadSession", StoreArg(o, id, conf, {}))
    /\ kind' = [kind EXCEPT ![FirstCall(o)] = "loaded"]

\* Lines 278-290 selecting by sessionID only.
LoadSessionSelectByID(c) ==
    LET results == {r \in sessions : r.id = arg[c].session} IN
    /\ pc[c] = "running"
    /\ kind[c] = "loaded"
    /\ IF results = {}
       THEN SqlCallableRaised(c, "NoSuchSession")
       ELSE SqlCallableReturned(c,
                SQLSession((CHOOSE r \in results : TRUE).id,
                           arg[c].confidential))
    /\ lastExec' = TransactionExecute(c)
    /\ UNCHANGED <<cxn, parent, kind, free, nconn, dbTxn, outcome>>
    /\ UNCHANGED <<arg, authVars, dbVars, acctVars>>

\* Lines 278-290: the callable loaded selects by sessionID and confidential;
\* no row: NoSuchSession; otherwise the session of the fetched identifier.
LoadSessionSelect(c) ==
    LET results == {r \in sessions : /\ r.id = arg[c].session
                                     /\ r.confidential = arg[c].confidential}
    IN
    /\ pc[c] = "running"
    /\ kind[c] = "loaded"
    /\ IF results = {}
       THEN SqlCallableRaised(c, "NoSuchSession")
       ELSE SqlCallableReturned(c,
                SQLSession((CHOOSE r \in results : TRUE).id,
                           arg[c].confidential))
    /\ lastExec' = TransactionExecute(c)
    /\ UNCHANGED <<cxn, parent, kind, free, nconn, dbTxn, outcome>>
    /\ UNCHANGED <<arg, authVars, dbVars, acctVars>>

\* Lines 225-244: sent_insecurely(tokens).
SentInsecurelyStart(o, tokens) ==
    /\ SqlOpStart(o, "sent_insecurely", StoreArg(o, 0, FALSE, tokens))
    /\ kind' = [kind EXCEPT ![FirstCall(o)] = "invalidate"]

\* Lines 238-243 deleting by sessionID only.
SentInsecurelyDeleteAny(c) ==
    /\ pc[c] = "running"
    /\ kind[c] = "invalidate"
    /\ pending' = [pending EXCEPT ![c] =
                      [t |-> "delete session", ids |-> arg[c].tokens]]
    /\ SqlCallableReturned(c, 0)
    /\ lastExec' = TransactionExecute(c)
    /\ UNCHANGED <<cxn, parent, kind, free, nconn, dbTxn, outcome>>
    /\ UNCHANGED <<arg, authVars, accounts, bindings, acctVars>>
    /\ UNCHANGED <<tableVars, envVars, startVars>>

\* Lines 236-243: the callable invalidate executes, for every token, the
\* delete of the row of that sessionID that is confidential; gatherResults
\* fires when all of them are done.
SentInsecurelyDelete(c) ==
    /\ pc[c] = "running"
    /\ kind[c] = "invalidate"
    /\ pending' = [pending EXCEPT ![c] =
                      [t |-> "delete session",
                       ids |-> {r.id : r \in
                                   {x \in sessions : /\ x.id \in arg[c].tokens
                                                     /\ x.confidential}}]]
    /\ SqlCallableReturned(c, 0)
    /\ lastExec' = TransactionExecute(c)
    /\ UNCHANGED <<cxn, parent, kind, free, nconn, dbTxn, outcome>>
    /\ UNCHANGED <<arg, authVars, accounts, bindings, acctVars>>
    /\ UNCHANGED <<tableVars, envVars, startVars>>

\* -------------------------------------------------------- IPTrackingProcurer
\* request.client.host, of either address family.
IPs == {"10.0.0.1", "::1"}

TouchArg(o, s, ip) ==
    [op |-> o, session |-> s, ifaces |-> {}, ip |-> ip, last_used |-> 0,
     stmt |-> "insert"]

\* The session_ip rows of a key (address_family is a function of
\* ip_address, line 655).
RowsOfKey(s, ip) == {r \in sessionIP : r.session = s /\ r.ip = ip}

\* Another transaction holds an uncommitted write of the same key.
KeyLocked(c) ==
    \E d \in Calls \ {c} :
        /\ pending[d].t \in {"insert session_ip", "update session_ip"}
        /\ pending[d].session = arg[c].session
        /\ pending[d].ip = arg[c].ip

\* Lines 639-653: procureSession(request); the inner procurer has fired
\* with the session of identifier s and the callback makes sql(touch).
ProcureSessionStart(o, s, ip) ==
    /\ SqlOpStart(o, "procureSession", TouchArg(o, s, ip))
    /\ kind' = [kind EXCEPT ![FirstCall(o)] = "touch"]

\* Lines 646-647: the inner procurer has fired with None.
ProcureSessionNone(o) ==
    /\ op[o].st = "idle"
    /\ \A x \in Ops : x < o => op[x].st # "idle"
    /\ op' = [op EXCEPT ![o] =
                 [type |-> "procureSession", st |-> "done", session |-> 0,
                  call |-> 0, after |-> {x \in Ops : op[x].st = "done"},
                  res |-> Result(0)]]
    /\ lastExec' = NoExec
    /\ UNCHANGED <<pc, cxn, parent, kind, free, nconn, stopped, dbTxn, issued,
                   callres, outcome>>
    /\ UNCHANGED <<arg, authVars, dbVars, nextID>>

\* Lines 135-138, 654-663: begin succeeded and touch is called: it reads
\* the clock and upsert sends the insert.
BeginOkTouch(c) ==
    /\ pc[c] = "beginning"
    /\ kind[c] = "touch"
    /\ dbTxn' = [dbTxn EXCEPT ![c] = "open"]
    /\ stopped' = [stopped EXCEPT ![c] = "False"]
    /\ pc' = [pc EXCEPT ![c] = "running"]
    /\ arg' = [arg EXCEPT ![c].last_used = clock]
    /\ clock' = clock + 1
    /\ lastExec' = TransactionExecute(c)
    /\ UNCHANGED <<cxn, parent, kind, free, nconn, issued, callres, outcome>>
    /\ UNCHANGED <<authVars, accounts, bindings, pending, acctVars>>
    /\ UNCHANGED <<tableVars, nextSID, startVars>>

\* Lines 590-594: the insert is executed.  A row of the key is there:
\* IntegrityError, and upsert sends the update.  Otherwise the insert is
\* done and so is touch.
UpsertInsert(c) ==
    /\ pc[c] = "running"
    /\ kind[c] = "touch"
    /\ arg[c].stmt = "insert"
    /\ ~KeyLocked(c)
    /\ IF RowsOfKey(arg[c].session, arg[c].ip) # {}
       THEN /\ arg' = [arg EXCEPT ![c].stmt = "update"]
            /\ lastExec' = TransactionExecute(c)
            /\ UNCHANGED <<pc, stopped, issued, callres, pending>>
       ELSE /\ pending' = [pending EXCEPT ![c] =
                              [t |-> "insert session_ip",
                               session |-> arg[c].session, ip |-> arg[c].ip,
                               last_used |-> arg[c].last_used]]
            /\ SqlCallableReturned(c, 0)
            /\ lastExec' = NoExec
            /\ UNCHANGED arg
    /\ UNCHANGED <<cxn, parent, kind, free, nconn, dbTxn, outcome>>
    /\ UNCHANGED <<authVars, accounts, bindings, acctVars>>
    /\ UNCHANGED <<tableVars, envVars, startVars>>

\* Lines 591-594: the insert fails with an error that is no IntegrityError
\* (an OperationalError of the driver); it leaves upsert and touch.
UpsertInsertFail(c) ==
    /\ pc[c] = "running"
    /\ kind[c] = "touch"
    /\ arg[c].stmt = "insert"
    /\ SqlCallableRaised(c, "OperationalError")
    /\ lastExec' = NoExec
    /\ UNCHANGED <<cxn, parent, kind, free, nconn, dbTxn, outcome>>
    /\ UNCHANGED <<arg, authVars, dbVars, acctVars>>

\* Lines 596-603: the update of last_used where the key matches is executed.
UpsertUpdate(c) ==
    /\ pc[c] = "running"
    /\ kind[c] = "touch"
    /\ arg[c].stmt = "update"
    /\ ~KeyLocked(c)
    /\ pending' = [pending EXCEPT ![c] =
                      [t |-> "update session_ip",
                       session |-> arg[c].session, ip |-> arg[c].ip,
                       last_used |-> arg[c].last_used]]
    /\ SqlCallableReturned(c, 0)
    /\ lastExec' = NoExec
    /\ UNCHANGED <<cxn, parent, kind, free, nconn, dbTxn, outcome>>
    /\ UNCHANGED <<arg, authVars, accounts, bindings, acctVars>>
    /\ UNCHANGED <<tableVars, envVars, startVars>>

\* Lines 664-671: sql(touch) fired.  andReturn, a callback only, turns its
\* result into the session; a failure of touch passes through.
ProcureSessionDone(o) ==
    /\ op[o].type = "procureSession"
    /\ op[o].st = "called"
    /\ pc[op[o].call] = "done"
    /\ op' = [op EXCEPT ![o].st = "done",
                        ![o].res = IF outcome[op[o].call].k = "result"
                                   THEN Result(op[o].session)
                                   ELSE outcome[op[o].call]]
    /\ lastExec' = NoExec
    /\ UNCHANGED <<pc, cxn, parent, kind, free, nconn, stopped, dbTxn, issued,
                   callres, outcome>>
    /\ UNCHANGED <<arg, authVars, dbVars, nextID>>

\* -------------------------------------- open, openSessionStore, the schema
\* A creator is written as the component it creates.
Provides(a, interface) ==
    CASE interface = "ISessionStore" -> a.cls = "AlchimiaSessionStore"
      [] interface = "ISessionProcurer" -> a.cls = "IPTrackingProcurer"
      [] interface = "ISQLSchemaComponent" ->
             a.cls \in {"AlchimiaSessionStore", "AccountBindingStorePlugin",
                        "IPTrackingProcurer", "AnAuthorizer"}
      [] OTHER -> FALSE

\* Lines 153-161: componentsProviding(interface) over a registry, as the
\* positions of the components it yields, in the order it yields them.
RECURSIVE ComponentsProviding(_, _)
ComponentsProviding(interface, registry) ==
    IF registry = <<>> THEN <<>>
    ELSE LET n == Len(registry)
             before == ComponentsProviding(interface, SubSeq(registry, 1, n - 1))
         IN IF Provides(registry[n], interface)
            THEN Append(before, n) ELSE before

\* Lines 690-693: the creator of the IP tracking takes the first session
\* store the registry yields when it is invoked (0: the creator asks for
\* nothing).
CreatorLookup(a, registry) ==
    IF a.cls = "IPTrackingProcurer"
    THEN Head(ComponentsProviding("ISessionStore", registry))
    ELSE 0

\* Lines 186-187: components.extend(creator(metadata, self) for creator in
\* component_creators), all created first and registered together.
OpenCreateUnregistered ==
    /\ opening \in DOMAIN creators
    /\ components' = IF opening = Len(creators) THEN creators ELSE components
    /\ procurerOf' = Append(procurerOf, 0)
    /\ opening' = opening + 1
    /\ lastExec' = NoExec
    /\ UNCHANGED <<pc, cxn, parent, kind, free, nconn, stopped, dbTxn, issued,
                   callres, outcome>>
    /\ UNCHANGED <<arg, az, result, accounts, bindings, pending, tableVars,
                   envVars, schema, creators, acctVars>>

\* Lines 186-187: extend() draws one item from the generator, which invokes
\* the next creator, and appends the component before it draws again.
OpenCreate ==
    /\ opening \in DOMAIN creators
    /\ components' = Append(components, creators[opening])
    /\ procurerOf' =
           Append(procurerOf, CreatorLookup(creators[opening], components))
    /\ opening' = opening + 1
    /\ lastExec' = NoExec
    /\ UNCHANGED <<pc, cxn, parent, kind, free, nconn, stopped, dbTxn, issued,
                   callres, outcome>>
    /\ UNCHANGED <<arg, az, result, accounts, bindings, pending, tableVars,
                   envVars, schema, creators, acctVars>>

\* Lines 188 and 697: open returns the store, openSessionStore returns the
\* first session procurer of the registry.
OpenReturn ==
    /\ opening = Len(creators) + 1
    /\ ComponentsProviding("ISessionProcurer", components) # <<>>
    /\ opening' = 0
    /\ lastExec' = NoExec
    /\ UNCHANGED <<pc, cxn, parent, kind, free, nconn, stopped, dbTxn, issued,
                   callres, outcome>>
    /\ UNCHANGED <<arg, authVars, accounts, bindings, pending, tableVars,
                   envVars, schema, creators, procurerOf, acctVars>>

\* The CreateTable statements of each initialize_schema, in the order they
\* are executed (lines 253, 551-552, 634; the schema of authorizerFor
\* creates nothing by default, line 730).
TablesOf(a) ==
    CASE a.cls = "AlchimiaSessionStore" -> <<"session">>
      [] a.cls = "AccountBindingStorePlugin" -> <<"account", "account_session">>
      [] a.cls = "IPTrackingProcurer" -> <<"session_ip">>
      [] OTHER -> <<>>

\* Lines 252-255 and 633-636: the initialize_schema that catches the
\* OperationalError of its own statement.
CatchesOperationalError(a) ==
    a.cls \in {"AlchimiaSessionStore", "IPTrackingProcurer"}

SchemaIndexes ==
    RangeOf(ComponentsProviding("ISQLSchemaComponent", components))

\* The loop of `do` after component i: the next schema component that
\* executes a statement (0: none, the loop ends), and the schema components
\* whose initialize_schema is invoked on the way.
NextStatement(i) ==
    LET later == {k \in SchemaIndexes :
                      k > i /\ TablesOf(components[k]) # <<>>}
    IN IF later = {} THEN 0
       ELSE CHOOSE k \in later : \A x \in later : k <= x

InvokedUpTo(i, k) ==
    SelectSeq(ComponentsProviding("ISQLSchemaComponent", components),
              LAMBDA x : x > i /\ (k = 0 \/ x <= k))

\* Lines 191-204: _populate_schema() called on the opened store.
PopulateSchemaStart(o) ==
    /\ opening = 0
    /\ SqlOpStart(o, "_populate_schema", [op |-> o, session |-> 0, ifaces |-> {}])
    /\ kind' = [kind EXCEPT ![FirstCall(o)] = "do"]

\* Lines 135-138 and 198-200: the transaction began and `do` is invoked; its
\* loop runs up to the first statement.  (Every store opened by
\* openSessionStore has the session store first.)
BeginOkDo(c) ==
    /\ pc[c] = "beginning"
    /\ kind[c] = "do"
    /\ dbTxn' = [dbTxn EXCEPT ![c] = "open"]
    /\ stopped' = [stopped EXCEPT ![c] = "False"]
    /\ pc' = [pc EXCEPT ![c] = "running"]
    /\ schema' = [schema EXCEPT ![c] =
                     [i |-> NextStatement(0), j |-> 1, raised |-> {},
                      invoked |-> InvokedUpTo(0, NextStatement(0)),
                      before |-> tables]]
    /\ lastExec' = NoExec
    /\ UNCHANGED <<cxn, parent, kind, free, nconn, issued, callres, outcome>>
    /\ UNCHANGED <<arg, authVars, accounts, bindings, pending, tableVars,
                   envVars, creators, opening, procurerOf, acctVars>>

CreatedBy(c) ==
    IF pending[c].t = "create table" THEN pending[c].names ELSE {}

\* The loop of `do` goes on after component schema[c].i, or ends: `do`
\* returns None and sql() commits.
PopulateNext(c, raised) ==
    LET s == schema[c]
        k == NextStatement(s.i)
    IN /\ schema' = [schema EXCEPT ![c] =
                        [i |-> k, j |-> 1, raised |-> raised,
                         invoked |-> s.invoked \o InvokedUpTo(s.i, k),
                         before |-> s.before]]
       /\ IF k = 0
          THEN SqlCallableReturned(c, 0)
          ELSE UNCHANGED <<pc, stopped, issued, callres>>

\* Lines 199-203 without the except clause: the OperationalError of an
\* initialize_schema leaves `do`.
PopulateCreateTableUncaught(c) ==
    /\ pc[c] = "running"
    /\ kind[c] = "do"
    /\ schema[c].i # 0
    /\ LET s == schema[c]
           a == components[s.i]
           table == TablesOf(a)[s.j]
       IN /\ \A d \in Calls \ {c} : table \notin CreatedBy(d)
          /\ IF table \in tables \cup CreatedBy(c)
             THEN /\ pending' = pending
                  /\ IF CatchesOperationalError(a)
                     THEN PopulateNext(c, s.raised)
                     ELSE /\ schema' = [schema EXCEPT
                                           ![c].raised = @ \cup {s.i}]
                          /\ SqlCallableRaised(c, "OperationalError")
             ELSE /\ pending' = [pending EXCEPT ![c] =
                                    [t |-> "create table",
                                     names |-> CreatedBy(c) \cup {table}]]
                  /\ IF s.j < Len(TablesOf(a))
                     THEN /\ schema' = [schema EXCEPT ![c].j = s.j + 1]
                          /\ UNCHANGED <<pc, stopped, issued, callres>>
                     ELSE PopulateNext(c, s.raised)
    /\ lastExec' = TransactionExecute(c)
    /\ UNCHANGED <<cxn, parent, kind, free, nconn, dbTxn, outcome>>
    /\ UNCHANGED <<arg, authVars, accounts, bindings, tableVars, envVars,
                   creators, opening, procurerOf, acctVars>>

\* The CreateTable an initialize_schema waits for is executed (lines 253,
\* 552, 634).  It waits while another transaction holds an uncommitted
\* table of that name.  A table that exists makes it an OperationalError:
\* the session store and the IP tracking catch their own, the account
\* binding store lets it out and the except clause of `do` (lines 201-203)
\* catches it; either way the loop goes on with the next component.
PopulateCreateTable(c) ==
    /\ pc[c] = "running"
    /\ kind[c] = "do"
    /\ schema[c].i # 0
    /\ LET s == schema[c]
           a == components[s.i]
           table == TablesOf(a)[s.j]
       IN /\ \A d \in Calls \ {c} : table \notin CreatedBy(d)
          /\ IF table \in tables \cup CreatedBy(c)
             THEN /\ pending' = pending
                  /\ PopulateNext(c, IF CatchesOperationalError(a)
                                     THEN s.raised
                                     ELSE s.raised \cup {s.i})
             ELSE /\ pending' = [pending EXCEPT ![c] =
                                    [t |-> "create table",
                                     names |-> CreatedBy(c) \cup {table}]]
                  /\ IF s.j < Len(TablesOf(a))
                     THEN /\ schema' = [schema EXCEPT ![c].j = s.j + 1]
                          /\ UNCHANGED <<pc, stopped, issued, callres>>
                     ELSE PopulateNext(c, s.raised)
    /\ lastExec' = TransactionExecute(c)
    /\ UNCHANGED <<cxn, parent, kind, free, nconn, dbTxn, outcome>>
    /\ UNCHANGED <<arg, authVars, accounts, bindings, tableVars, envVars,
                   creators, opening, procurerOf, acctVars>>

\* The caller of a concluded sql call drops its Deferred and its Transaction:
\* nothing refers to the call any more.
Forget(c) ==
    /\ pc[c] = "done"
    /\ kind[c] = "generic"
    /\ pc' = [pc EXCEPT ![c] = "idle"]
    /\ cxn' = [cxn EXCEPT ![c] = 0]
    /\ kind' = [kind EXCEPT ![c] = "none"]
    /\ stopped' = [stopped EXCEPT ![c] = "none"]
    /\ dbTxn' = [dbTxn EXCEPT ![c] = "none"]
    /\ issued' = [issued EXCEPT ![c] = <<>>]
    /\ callres' = [callres EXCEPT ![c] = Pending]
    /\ outcome' = [outcome EXCEPT ![c] = Pending]
    /\ lastExec' = NoExec
    /\ UNCHANGED <<parent, free, nconn>>
    /\ UNCHANGED <<arg, authVars, dbVars, acctVars>>

\* --------------------------------------------------------- the specification
NoArg == [op |-> 0, session |-> 0, ifaces |-> {}]
NoOp == [type |-> "none", st |-> "idle", username |-> "", pw |-> "",
         session |-> 0, call |-> 0, row |-> NoRow, after |-> {},
         res |-> Pending]

\* A store that was opened and whose schema was populated before.
InitStore ==
    /\ sessions = InitialSessions
    /\ sessionIP = {}
    /\ tables = AllTables
    /\ nextSID = Cardinality(InitialSessions) + 1
    /\ clock = 1
    /\ schema = [c \in Calls |-> NoSchema]
    /\ creators = <<>>
    /\ opening = 0
    /\ procurerOf = <<>>

InitSql ==
    /\ pc = [c \in Calls |-> "idle"]
    /\ cxn = [c \in Calls |-> 0]
    /\ parent = [c \in Calls |-> 0]
    /\ kind = [c \in Calls |-> "none"]
    /\ free = <<>>
    /\ nconn = 0
    /\ stopped = [c \in Calls |-> "none"]
    /\ dbTxn = [c \in Calls |-> "none"]
    /\ issued = [c \in Calls |-> <<>>]
    /\ callres = [c \in Calls |-> Pending]
    /\ outcome = [c \in Calls |-> Pending]
    /\ lastExec = NoExec
    /\ arg = [c \in Calls |-> NoArg]
    /\ pending = [c \in Calls |-> NoWrite]
    /\ az = [c \in Calls |-> <<>>]
    /\ result = [c \in Calls |-> <<>>]
    /\ op = [o \in Ops |-> NoOp]

\* A data store whose callers bring their own callables: no component, an
\* empty database.
Init ==
    /\ InitSql
    /\ InitStore
    /\ components = <<>>
    /\ accounts = {}
    /\ bindings = {}
    /\ nextID = 1

Next ==
    \/ \E c \in Calls : StartSql(c)
    \/ \E c \in Calls : ConnectOk(c)
    \/ \E c \in Calls : ConnectFail(c)
    \/ \E c \in Calls : BeginOk(c)
    \/ \E c \in Calls : BeginFail(c)
    \/ \E h \in Calls : Execute(h)
    \/ \E c \in Calls, v \in Values : GenericReturn(c, v)
    \/ \E c \in Calls : GenericRaise(c)
    \/ \E c \in Calls : CommitOk(c)
    \/ \E c \in Calls : CommitFail(c)
    \/ \E c \in Calls : RollbackOk(c)
    \/ \E c \in Calls : RollbackFail(c)
    \/ \E c \in Calls : Forget(c)

Spec == Init /\ [][Next]_vars

\* A store opened by openSessionStore, with or without authorizerFor
\* components; account 1 exists and session 1 is logged in to it.
InitAuthz ==
    /\ InitSql
    /\ InitStore
    /\ components \in Registries
    /\ accounts = {[id |-> 1, username |-> "alice", fmt |-> "current",
                    pw |-> "pw1"]}
    /\ bindings = {[id |-> 1, session |-> 1]}
    /\ nextID = 2

NextAuthz ==
    \/ \E c \in Calls, s \in SessionIDs, ifaces \in Requests :
           Authorize(c, s, ifaces)
    \/ \E c \in Calls : ConnectOk(c)
    \/ \E c \in Calls : BeginOk(c)
    \/ \E c \in Calls : BeginOkAuthzn(c)
    \/ \E c \in Calls, i \in ComponentIndexes : LoginAuthorizerAuthorize(c, i)
    \/ \E c \in Calls, i \in ComponentIndexes : LoginAuthorizerAccounts(c, i)
    \/ \E e \in Calls : AuthenticatedAccountsSelect(e)
    \/ \E c \in Calls, i \in ComponentIndexes : LoginAuthorizerDone(c, i)
    \/ \E c \in Calls, i \in ComponentIndexes : CustomAuthorizerFire(c, i)
    \/ \E c \in Calls : CommitOk(c)

SpecAuthz == InitAuthz /\ [][NextAuthz]_vars

\* The event loop runs every callback that is due, and every database
\* operation completes; nobody is obliged to call authorize.
AuthzProgress ==
    \/ \E c \in Calls : ConnectOk(c)
    \/ \E c \in Calls : BeginOk(c)
    \/ \E c \in Calls : BeginOkAuthzn(c)
    \/ \E c \in Calls, i \in ComponentIndexes : LoginAuthorizerAuthorize(c, i)
    \/ \E c \in Calls, i \in ComponentIndexes : LoginAuthorizerAccounts(c, i)
    \/ \E e \in Calls : AuthenticatedAccountsSelect(e)
    \/ \E c \in Calls, i \in ComponentIndexes : LoginAuthorizerDone(c, i)
    \/ \E c \in Calls, i \in ComponentIndexes : CustomAuthorizerFire(c, i)
    \/ \E c \in Calls : CommitOk(c)

SpecAuthzLive == SpecAuthz /\ WF_vars(AuthzProgress)

\* A store opened by openSessionStore; account 1, alice, exists with a hash
\* in a legacy format; nobody is logged in.
InitialAccounts ==
    {[id |-> 1, username |-> "alice", fmt |-> "legacy", pw |-> "pw1"]}

InitAcct ==
    /\ InitSql
    /\ InitStore
    /\ components = DefaultComponents
    /\ accounts = InitialAccounts
    /\ bindings = {}
    /\ nextID = Cardinality(InitialAccounts) + 1

NextAcct ==
    \/ \E o \in Ops, u \in Usernames, p \in Passwords, s \in SessionIDs :
           CreateAccountStart(o, u, p, s)
    \/ \E o \in Ops : CreateAccountStore(o)
    \/ \E c \in Calls : StoreInsert(c)
    \/ \E o \in Ops : CreateAccountDone(o)
    \/ \E o \in Ops, u \in Usernames, p \in Passwords, s \in SessionIDs :
           LogInStart(o, u, p, s)
    \/ \E c \in Calls : RetrieveSelect(c)
    \/ \E o \in Ops : LogInCheck(o)
    \/ \E o \in Ops : LogInVerified(o)
    \/ \E c \in Calls : StoreNewUpdate(c)
    \/ \E o \in Ops : LogInReset(o)
    \/ \E c \in Calls : CreateRowInsert(c)
    \/ \E o \in Ops : LogInDone(o)
    \/ \E c \in Calls : ConnectOk(c)
    \/ \E c \in Calls : BeginOk(c)
    \/ \E c \in Calls : CommitOk(c)
    \/ \E c \in Calls : RollbackOk(c)

SpecAcct == InitAcct /\ [][NextAcct]_vars

\* A store with the accounts of alice and bob, their hashes in the current
\* format; session 1 may have logged in as alice before.
LoginAccounts ==
    {[id |-> 1, username |-> "alice", fmt |-> "current", pw |-> "pw1"],
     [id |-> 2, username |-> "bob", fmt |-> "current", pw |-> "pw2"]}

InitLogin ==
    /\ InitSql
    /\ InitStore
    /\ components = DefaultComponents
    /\ accounts = LoginAccounts
    /\ bindings \in {{}, {[id |-> 1, session |-> 1]}}
    /\ nextID = Cardinality(LoginAccounts) + 1

NextLogin ==
    \/ \E o \in Ops, u \in Usernames, p \in Passwords, s \in SessionIDs :
           LogInStart(o, u, p, s)
    \/ \E c \in Calls : RetrieveSelect(c)
    \/ \E o \in Ops : LogInCheck(o)
    \/ \E o \in Ops : LogInVerified(o)
    \/ \E c \in Calls : CreateRowInsert(c)
    \/ \E o \in Ops : LogInDone(o)
    \/ \E o \in Ops, s \in SessionIDs : AuthenticatedAccountsStart(o, s)
    \/ \E c \in Calls : AuthenticatedAccountsSelect(c)
    \/ \E o \in Ops, s \in SessionIDs : LogOutStart(o, s)
    \/ \E c \in Calls : LogOutDelete(c)
    \/ \E o \in Ops : SqlOpDone(o)
    \/ \E c \in Calls : ConnectOk(c)
    \/ \E c \in Calls : BeginOk(c)
    \/ \E c \in Calls : CommitOk(c)
    \/ \E c \in Calls : RollbackOk(c)

SpecLogin == InitLogin /\ [][NextLogin]_vars

\* The session store of an opened store, with the sessions in use.
InitSessionStore ==
    /\ InitSql
    /\ InitStore
    /\ components = DefaultComponents
    /\ accounts = {}
    /\ bindings = {}
    /\ nextID = 1

NextSessionStore ==
    \/ \E o \in Ops, conf \in BOOLEAN : NewSessionStart(o, conf)
    \/ \E c \in Calls : NewSessionInsert(c)
    \/ \E o \in Ops, id \in LoadableIDs, conf \in BOOLEAN :
           LoadSessionStart(o, id, conf)
    \/ \E c \in Calls : LoadSessionSelect(c)
    \/ \E o \in Ops, tokens \in TokenSets : SentInsecurelyStart(o, tokens)
    \/ \E c \in Calls : SentInsecurelyDelete(c)
    \/ \E o \in Ops : SqlOpDone(o)
    \/ \E c \in Calls : ConnectOk(c)
    \/ \E c \in Calls : BeginOk(c)
    \/ \E c \in Calls : CommitOk(c)
    \/ \E c \in Calls : RollbackOk(c)

SpecSessionStore == InitSessionStore /\ [][NextSessionStore]_vars

\* The IP tracking of an opened store; the driver may fail.
InitTracking ==
    /\ InitSql
    /\ InitStore
    /\ components = DefaultComponents
    /\ accounts = {}
    /\ bindings = {}
    /\ nextID = 1

NextTracking ==
    \/ \E o \in Ops, s \in SessionIDs, ip \in IPs :
           ProcureSessionStart(o, s, ip)
    \/ \E o \in Ops : ProcureSessionNone(o)
    \/ \E c \in Calls : BeginOkTouch(c)
    \/ \E c \in Calls : UpsertInsert(c)
    \/ \E c \in Calls : UpsertInsertFail(c)
    \/ \E c \in Calls : UpsertUpdate(c)
    \/ \E o \in Ops : ProcureSessionDone(o)
    \/ \E c \in Calls : ConnectOk(c)
    \/ \E c \in Calls : ConnectFail(c)
    \/ \E c \in Calls : BeginFail(c)
    \/ \E c \in Calls : CommitOk(c)
    \/ \E c \in Calls : CommitFail(c)
    \/ \E c \in Calls : RollbackOk(c)
    \/ \E c \in Calls : RollbackFail(c)

SpecTracking == InitTracking /\ [][NextTracking]_vars

\* openSessionStore from its first line, on a database that has any of the
\* tables already, and _populate_schema calls on the opened store.
InitStartup ==
    /\ InitSql
    /\ sessions = {}
    /\ sessionIP = {}
    /\ tables \in SUBSET AllTables
    /\ nextSID = 1
    /\ clock = 1
    /\ schema = [c \in Calls |-> NoSchema]
    /\ creators \in Registries
    /\ opening = 1
    /\ procurerOf = <<>>
    /\ components = <<>>
    /\ accounts = {}
    /\ bindings = {}
    /\ nextID = 1

NextStartup ==
    \/ OpenCreate
    \/ OpenReturn
    \/ \E o \in Ops : PopulateSchemaStart(o)
    \/ \E c \in Calls : BeginOkDo(c)
    \/ \E c \in Calls : PopulateCreateTable(c)
    \/ \E o \in Ops : SqlOpDone(o)
    \/ \E c \in Calls : ConnectOk(c)
    \/ \E c \in Calls : CommitOk(c)

SpecStartup == InitStartup /\ [][NextStartup]_vars

\* ------------------------------------------------------------------ claims
\* C1: Transaction.execute hands the statement to the wrapped connection
\* while the callable of its sql call is running; once the transaction has
\* been committed (rolled back) it raises TransactionEnded("committed")
\* (TransactionEnded("rolled back")) and nothing reaches the connection.
C1_ExecuteGuarded ==
    \A h \in Calls :
        lastExec.h = h =>
            /\ pc[h] = "running" =>
                   lastExec.raised = "" /\ lastExec.conn = cxn[h]
            /\ dbTxn[h] = "committed" =>
                   lastExec.raised = "committed" /\ lastExec.conn = 0
            /\ dbTxn[h] = "rolled back" =>
                   lastExec.raised = "rolled back" /\ lastExec.conn = 0

\* A kept handle is used after its transaction was committed, while another
\* call is running on the very connection the handle wraps.
C1_Witness ==
    \E h \in Calls, c \in Calls :
        /\ lastExec.h = h /\ dbTxn[h] = "committed"
        /\ c # h /\ pc[c] = "running" /\ cxn[c] = cxn[h]

\* C2: when the callable fails, sql requests a rollback and no commit, marks
\* the Transaction "rolled back", and its Deferred fails with the callable's
\* own failure.
C2_OriginalFailureDelivered ==
    \A c \in Calls :
        (pc[c] = "done" /\ callres[c].k = "failure") =>
            /\ issued[c] = <<"begin", "rollback">>
            /\ stopped[c] = "rolled back"
            /\ outcome[c] = Failed(callres[c].e)

\* C3 as stated: when the callable succeeds, sql requests one commit and no
\* rollback, marks the Transaction "committed", and delivers the callable's
\* result.
C3_ResultDelivered ==
    \A c \in Calls :
        (pc[c] = "done" /\ callres[c].k = "result") =>
            /\ issued[c] = <<"begin", "commit">>
            /\ stopped[c] = "committed"
            /\ outcome[c] = Result(callres[c].v)

\* C3 as amended: when the callable succeeds, sql requests one commit and no
\* rollback and marks the Transaction "committed"; it delivers the
\* callable's result if the commit succeeds and the commit's failure if not.
C3_ResultDeliveredIfCommitted ==
    \A c \in Calls :
        (pc[c] = "done" /\ callres[c].k = "result") =>
            /\ issued[c] = <<"begin", "commit">>
            /\ stopped[c] = "committed"
            /\ dbTxn[c] = "committed" => outcome[c] = Result(callres[c].v)
            /\ dbTxn[c] # "committed" => outcome[c] = Failed("commitError")

C3_Witness ==
    \E c \in Calls, d \in Calls :
        /\ pc[c] = "done" /\ callres[c].k = "result"
        /\ dbTxn[c] = "committed" /\ outcome[c].v = MaxValue
        /\ pc[d] = "done" /\ callres[d].k = "result" /\ dbTxn[d] = "failed"

\* C4: every connection the engine handed out is in the free pool or held
\* by a sql call that has not concluded: a concluded call, whichever way it
\* left, keeps no connection checked out.
C4_ConnectionReleased ==
    \A k \in 1..nconn :
        \/ k \in RangeOf(free)
        \/ \E c \in Calls : InFlight(c) /\ cxn[c] = k

\* Calls have concluded through a failed begin and a failed rollback, each
\* on a connection of its own, and both connections are back in the pool.
C4_Witness ==
    \E b \in Calls, c \in Calls :
        /\ pc[b] = "done" /\ outcome[b].e = "beginError"
        /\ pc[c] = "done" /\ outcome[c].e = "rollbackError"
        /\ nconn = 2 /\ Len(free) = 2

\* C5: two calls in flight never hold the same connection, and a connection
\* held by a call in flight is not in the free pool.
C5_OwnConnection ==
    /\ \A c \in Calls, d \in Calls :
           (c # d /\ InFlight(c) /\ InFlight(d)) => cxn[c] # cxn[d]
    /\ \A c \in Calls : InFlight(c) => cxn[c] \notin RangeOf(free)

\* Two calls run at once, the second started inside the first's callable,
\* on connections that earlier calls had returned to the pool in the other
\* order.
C5_Witness ==
    \E c \in Calls, d \in Calls :
        /\ c < d /\ pc[c] = "running" /\ pc[d] = "running"
        /\ cxn[c] = 2 /\ cxn[d] = 1 /\ free = <<>>

\* What authorizer i yields for session s once it has completed.
CompletedResults(i, s) ==
    IF components[i].cls = "AccountBindingStorePlugin" THEN {Binding(s)}
    ELSE IF components[i].cls = "AccountLoginAuthorizer"
    THEN IF AccountsOf(s) = {} THEN {None}
         ELSE {Account(a) : a \in AccountsOf(s)}
    ELSE {Custom(i)}

\* C6: the dict authorize delivers has exactly the requested interfaces that
\* a registered authorizer is for as keys, each with the completed result of
\* such an authorizer for this session (never an unfired Deferred); and an
\* authorizer whose interface was not requested is never invoked.
C6_AuthorizeMapping ==
    \A c \in Calls :
        kind[c] = "authzn" =>
            /\ \A i \in DOMAIN az[c] :
                   components[i].cap \notin arg[c].ifaces => az[c][i] = "-"
            /\ (pc[c] = "done" /\ outcome[c].k = "result") =>
                   /\ DOMAIN outcome[c].v =
                          arg[c].ifaces \cap
                              {components[i].cap : i \in
                                  {j \in DOMAIN components :
                                      IsAuthorizer(components[j])}}
                   /\ \A cap \in DOMAIN outcome[c].v :
                          \E i \in DOMAIN components :
                              /\ components[i].cap = cap
                              /\ outcome[c].v[cap]
                                     \in CompletedResults(i, arg[c].session)

\* All four interfaces were requested on the logged-in session of a store
\* with an asynchronous IFoo authorizer: the dict has three keys, and IBar,
\* which nobody provides, is not one of them.
C6_Witness ==
    \E c \in Calls :
        /\ kind[c] = "authzn" /\ pc[c] = "done" /\ arg[c].ifaces = Caps
        /\ Len(components) = 5
        /\ DOMAIN outcome[c].v = Caps \ {"IBar"}
        /\ outcome[c].v["ISimpleAccount"] = Account(1)
        /\ outcome[c].v["IFoo"] = Custom(5)

\* C7: while an authorize call runs, the statements issued for it execute in
\* the transaction that call opened and no other transaction is opened for
\* it: no sql call made on its behalf begins a transaction of its own.
C7_SingleTransaction ==
    /\ \A d \in Calls : parent[d] # 0 => dbTxn[d] = "none"
    /\ lastExec.h # 0 => parent[lastExec.h] = 0

\* The create_account operations on username u, and those among them that
\* get an Account: sql(store) fired with a new accountID.
CreateOps(u) ==
    {o \in Ops : op[o].type = "create_account" /\ op[o].username = u}

GotAccount(o) ==
    \/ op[o].st = "done" /\ op[o].res.k = "result" /\ op[o].res.v # 0
    \/ /\ op[o].st = "storing"
       /\ pc[op[o].call] = "done"
       /\ outcome[op[o].call].k = "result"
       /\ outcome[op[o].call].v # 0

Unused(u) == \A r \in InitialAccounts : r.username # u

\* C8, as stated: of any two create_account calls with the same username
\* that have returned, exactly one returned an Account and the other an
\* absent result, not an error, and the account table holds exactly one row
\* for the username.
C8_ExactlyOneAccount ==
    \A o1 \in Ops, o2 \in Ops :
        /\ o1 # o2
        /\ op[o1].type = "create_account" /\ op[o2].type = "create_account"
        /\ op[o1].username = op[o2].username
        /\ op[o1].st = "done" /\ op[o2].st = "done"
        => /\ op[o1].res.k = "result" /\ op[o2].res.k = "result"
           /\ (op[o1].res.v # 0) # (op[o2].res.v # 0)
           /\ Cardinality({r \in accounts :
                              r.username = op[o1].username}) = 1

\* C8, amended: no create_account call ends in an error on a duplicate
\* username; once any create_account call for a username has returned, the
\* account table holds exactly one row for that username; when no account
\* had the username before the calls, exactly one of the calls gets an
\* Account, the row carries the accountID of that call (the others inserted
\* no row) and the others return an absent result; when an account had it,
\* all of them return an absent result.
C8_OneAccountPerUnusedUsername ==
    \A u \in Usernames :
        LET returned == {o \in CreateOps(u) : op[o].st = "done"}
            winners == {o \in CreateOps(u) : GotAccount(o)}
            rows == {r \in accounts : r.username = u} IN
        /\ \A o \in returned : op[o].res.k = "result"
        /\ returned # {} =>
              /\ Cardinality(rows) = 1
              /\ Cardinality(winners) = (IF Unused(u) THEN 1 ELSE 0)
              /\ \A r \in rows : \A o \in winners :
                     r.id = outcome[FirstCall(o)].v

\* Two interleaved create_account calls for the unused username bob have
\* both returned, one with an Account and one with an absent result.
C8_Witness ==
    \E o1 \in Ops, o2 \in Ops :
        /\ o1 # o2
        /\ op[o1].type = "create_account" /\ op[o2].type = "create_account"
        /\ op[o1].username = "bob" /\ op[o2].username = "bob"
        /\ op[o1].st = "done" /\ op[o2].st = "done"
        /\ op[o1].after = {} /\ op[o2].after = {}
        /\ op[o1].res.k = "result" /\ op[o1].res.v # 0
        /\ op[o2].res = Result(0)
        /\ Cardinality({r \in accounts : r.username = "bob"}) = 1

\* Operation o2 follows o1 immediately: no log_in of the same username on
\* the same session ran between the start of o1 and the end of o2.
Immediately(o1, o2) ==
    /\ o1 \in op[o2].after
    /\ \A x \in Ops \ {o1, o2} :
           \/ op[x].st = "idle"
           \/ x \in op[o1].after
           \/ o2 \in op[x].after
           \/ ~ /\ op[x].type = "log_in"
                /\ op[x].username = op[o2].username
                /\ op[x].session = op[o2].session

\* C9: when create_account(username, email, password) with an unused
\* username has returned an account and log_in(username, password) follows
\* immediately on the same binding, log_in returns an account with the
\* accountID of the account create_account returned.
C9_LogInAfterCreate ==
    \A o1 \in Ops, o2 \in Ops :
        /\ op[o1].type = "create_account" /\ op[o1].st = "done"
        /\ op[o1].res.k = "result" /\ op[o1].res.v # 0
        /\ op[o2].type = "log_in" /\ op[o2].st = "done"
        /\ op[o2].username = op[o1].username
        /\ op[o2].pw = op[o1].pw
        /\ op[o2].session = op[o1].session
        /\ Immediately(o1, o2)
        => op[o2].res = op[o1].res

\* create_account for bob returned an account and the log_in after it
\* returned the account of the same accountID, now bound to the session.
C9_Witness ==
    \E o1 \in Ops, o2 \in Ops :
        /\ op[o1].type = "create_account" /\ op[o1].st = "done"
        /\ op[o1].username = "bob" /\ op[o1].res.v # 0
        /\ op[o2].type = "log_in" /\ op[o2].st = "done"
        /\ op[o2].username = "bob" /\ op[o2].pw = op[o1].pw
        /\ op[o2].session = op[o1].session
        /\ Immediately(o1, o2)
        /\ op[o2].res = op[o1].res
        /\ [id |-> op[o1].res.v, session |-> op[o2].session] \in bindings

\* C10: a log_in that found the account of its username and was given a
\* password the stored hash does not verify returns an absent result and
\* writes nothing: it makes neither sql(storenew), which would modify the
\* stored hash, nor sql(createrow), which would bind the session, and its
\* retrieve transaction holds no write.
C10_WrongPasswordNoEffect ==
    \A o \in Ops :
        /\ op[o].type = "log_in"
        /\ op[o].row # NoRow
        /\ op[o].row.pw # op[o].pw
        => /\ op[o].st \in {"checking", "done"}
           /\ op[o].st = "done" => op[o].res = Result(0)
           /\ pc[ResetCall(o)] = "idle"
           /\ pc[BindCall(o)] = "idle"
           /\ pending[FirstCall(o)] = NoWrite

\* A log_in with a wrong password for alice has returned while another
\* log_in, with the right password, has replaced alice's legacy hash and
\* bound its session.
C10_Witness ==
    \E o \in Ops :
        /\ op[o].type = "log_in" /\ op[o].st = "done"
        /\ op[o].username = "alice"
        /\ op[o].row # NoRow /\ op[o].row.pw # op[o].pw
        /\ op[o].res = Result(0)
        /\ \E r \in accounts : r.username = "alice" /\ r.fmt = "current"
        /\ bindings # {}

\* C19: when two registered authorizers are for the same requested
\* interface, authorize invokes only the one registered first and the dict
\* it delivers holds that one's result.
C19_FirstMatchOnly ==
    \A c \in Calls :
        kind[c] = "authzn" =>
            \A i \in DOMAIN az[c], j \in DOMAIN az[c] :
                /\ i < j
                /\ IsAuthorizer(components[i])
                /\ components[i].cap = components[j].cap
                /\ components[i].cap \in arg[c].ifaces
                => /\ az[c][j] = "-"
                   /\ (pc[c] = "done" /\ outcome[c].k = "result") =>
                          outcome[c].v[components[i].cap]
                              \in CompletedResults(i, arg[c].session)

\* Operation a was called after l had returned, and no other log_in or
\* log_out of session s ran from the start of l to the end of a.
NextOnSession(l, a, s) ==
    /\ l \in op[a].after
    /\ op[l].session = s
    /\ \A x \in Ops \ {l, a} :
           \/ op[x].st = "idle"
           \/ x \in op[l].after
           \/ a \in op[x].after
           \/ op[x].session # s
           \/ op[x].type = "authenticated_accounts"

\* C11: authenticated_accounts() called on a session right after a log_in
\* of that session returned an account returns that account and no other;
\* called right after a log_out of that session it returns no account.
C11_AuthenticatedAccounts ==
    \A a \in Ops, l \in Ops :
        /\ op[a].type = "authenticated_accounts"
        /\ op[a].st = "done"
        /\ op[a].res.k = "result"
        /\ op[l].st = "done"
        /\ NextOnSession(l, a, op[a].session)
        => /\ (op[l].type = "log_in" /\ op[l].res.k = "result"
                   /\ op[l].res.v # 0)
                  => op[a].res.v = {op[l].res.v}
           /\ (op[l].type = "log_out" /\ op[l].res.k = "result")
                  => op[a].res.v = {}

\* What operation o was called with.
ArgOf(o) == arg[op[o].call]

Returned(o, type) == op[o].type = type /\ op[o].st = "done"

\* C12: the session newSession(isConfidential, authenticatedBy) returns has
\* that confidentiality; a loadSession called afterwards with its identifier
\* and the same isConfidential returns a session of that identifier and
\* confidentiality (unless the identifier was sent insecurely meanwhile);
\* loadSession with an identifier never handed out, or with the identifier
\* of a session and the other confidentiality, fails with NoSuchSession.
C12_NewSessionLoadSession ==
    /\ \A n \in Ops :
           (Returned(n, "newSession") /\ op[n].res.k = "result") =>
               op[n].res.v.confidential = ArgOf(n).confidential
    /\ \A n \in Ops, l \in Ops :
           /\ Returned(n, "newSession") /\ op[n].res.k = "result"
           /\ Returned(l, "loadSession") /\ n \in op[l].after
           /\ ArgOf(l).session = op[n].res.v.id
           => IF ArgOf(l).confidential # ArgOf(n).confidential
              THEN op[l].res = Failed("NoSuchSession")
              ELSE (\A x \in Ops :
                        (op[x].type = "sent_insecurely"
                             /\ ArgOf(l).session \in ArgOf(x).tokens)
                        => l \in op[x].after)
                   => op[l].res = Result(SQLSession(op[n].res.v.id,
                                                    ArgOf(n).confidential))
    /\ \A l \in Ops :
           Returned(l, "loadSession") =>
               /\ ArgOf(l).session >= nextSID
                      => op[l].res = Failed("NoSuchSession")
               /\ \A r \in InitialSessions :
                      (ArgOf(l).session = r.id
                           /\ ArgOf(l).confidential # r.confidential)
                      => op[l].res = Failed("NoSuchSession")

\* newSession returned a confidential session and the loadSession called
\* after it with its identifier and True returned that session.
C12_Witness ==
    \E n \in Ops, l \in Ops :
        /\ Returned(n, "newSession") /\ op[n].res.k = "result"
        /\ op[n].res.v.confidential
        /\ Returned(l, "loadSession") /\ n \in op[l].after
        /\ ArgOf(l).session = op[n].res.v.id
        /\ ArgOf(l).confidential
        /\ op[l].res = Result(op[n].res.v)
        /\ op[n].res.v \in sessions

\* A session row sent_insecurely must not touch: no sent_insecurely call
\* lists its identifier, or it is not confidential.
Untouched(r) ==
    \A x \in Ops :
        op[x].type = "sent_insecurely" =>
            ~(r.id \in ArgOf(x).tokens /\ r.confidential)

\* C13: once sent_insecurely(tokens) has returned, loadSession of a listed
\* token that was confidential fails with NoSuchSession; the rows of
\* non-confidential tokens and of sessions no call lists stay in the table
\* and stay loadable.
C13_SentInsecurely ==
    /\ \A x \in Ops, l \in Ops :
           /\ Returned(x, "sent_insecurely") /\ op[x].res.k = "result"
           /\ Returned(l, "loadSession") /\ x \in op[l].after
           /\ ArgOf(l).session \in ArgOf(x).tokens
           /\ ArgOf(l).confidential
           => op[l].res = Failed("NoSuchSession")
    /\ \A r \in InitialSessions :
           Untouched(r) =>
               /\ r \in sessions
               /\ \A l \in Ops :
                      /\ Returned(l, "loadSession")
                      /\ ArgOf(l).session = r.id
                      /\ ArgOf(l).confidential = r.confidential
                      => op[l].res = Result(SQLSession(r.id, r.confidential))

\* sent_insecurely([1, 2]) has returned: the row of the confidential
\* session 1 is gone and its loadSession failed; the row of the
\* non-confidential session 2 is there.
C13_Witness ==
    \E x \in Ops, l \in Ops :
        /\ Returned(x, "sent_insecurely") /\ op[x].res.k = "result"
        /\ ArgOf(x).tokens = {r.id : r \in InitialSessions}
        /\ Returned(l, "loadSession") /\ x \in op[l].after
        /\ ArgOf(l).session = 1 /\ ArgOf(l).confidential
        /\ op[l].res = Failed("NoSuchSession")
        /\ sessions = {r \in InitialSessions : ~r.confidential}

\* The later of two timestamps.
Later(a, b) == IF a >= b THEN a ELSE b

\* C14: the table session_ip never holds two rows of one key, and when two
\* procureSession calls that tracked the same key have returned and no
\* other call tracks it, the one row of the key has the later of their two
\* timestamps as last_used.
C14_UpsertLastUsed ==
    /\ \A r1 \in sessionIP, r2 \in sessionIP :
           (r1.session = r2.session /\ r1.ip = r2.ip) => r1 = r2
    /\ \A o1 \in Ops, o2 \in Ops :
           /\ o1 # o2
           /\ Returned(o1, "procureSession") /\ op[o1].res.k = "result"
           /\ Returned(o2, "procureSession") /\ op[o2].res.k = "result"
           /\ op[o1].call # 0 /\ op[o2].call # 0
           /\ ArgOf(o1).session = ArgOf(o2).session
           /\ ArgOf(o1).ip = ArgOf(o2).ip
           /\ \A x \in Ops \ {o1, o2} :
                  (op[x].st # "idle" /\ op[x].call # 0)
                  => (ArgOf(x).session # ArgOf(o1).session
                          \/ ArgOf(x).ip # ArgOf(o1).ip)
           => \E r \in sessionIP :
                  /\ RowsOfKey(ArgOf(o1).session, ArgOf(o1).ip) = {r}
                  /\ r.last_used = Later(ArgOf(o1).last_used,
                                         ArgOf(o2).last_used)

\* C15: when the inner procurer yields a session, procureSession returns
\* that session whatever the tracking write ends in.
C15_SessionDespiteTracking ==
    \A o \in Ops :
        (Returned(o, "procureSession") /\ op[o].call # 0)
        => op[o].res = Result(op[o].session)

\* How often initialize_schema of the component registered at position i
\* was invoked, over all _populate_schema calls.
Invocations(i) ==
    Cardinality({x \in Calls \X ComponentIndexes :
                     /\ x[2] \in DOMAIN schema[x[1]].invoked
                     /\ schema[x[1]].invoked[x[2]] = i})

\* C16: by the time openSessionStore completes, the initialize_schema of
\* every registered schema component has been invoked exactly once.
C16_SchemaInitialized ==
    opening = 0 => \A i \in SchemaIndexes : Invocations(i) = 1

\* C17: an initialize_schema called on a database where it already ran
\* (its tables existed when the transaction began) never raises to its
\* caller.
C17_InitializeSchemaNeverRaises ==
    \A c \in Calls : \A i \in schema[c].raised :
        ~ (RangeOf(TablesOf(components[i])) \subseteq schema[c].before)

IsPrefix(s, t) == Len(s) <= Len(t) /\ s = SubSeq(t, 1, Len(s))

\* C18: _populate_schema invokes initialize_schema of every registered
\* schema component, in registration order, on the one transaction of its
\* sql call; a table-creation failure of one component does not keep the
\* later components from being initialized, the transaction is committed
\* and _populate_schema does not fail.
C18_PopulateSchema ==
    \A c \in Calls : kind[c] = "do" =>
        LET all == ComponentsProviding("ISQLSchemaComponent", components)
        IN /\ callres[c].k # "failure"
           /\ lastExec.h = c => lastExec.raised = "" /\ lastExec.conn = cxn[c]
           /\ IsPrefix(schema[c].invoked, all)
           /\ pc[c] \in {"committing", "done"} => schema[c].invoked = all
           /\ pc[c] = "done" =>
                  /\ outcome[c].k = "result"
                  /\ dbTxn[c] = "committed"
                  /\ issued[c] = <<"begin", "commit">>

\* A _populate_schema call has finished in which the account binding store
\* raised and a component registered after it still executed its statement.
C18_Witness ==
    \E c \in Calls :
        /\ kind[c] = "do"
        /\ pc[c] = "done"
        /\ \E i \in schema[c].raised :
               \E n \in DOMAIN schema[c].invoked :
                   /\ schema[c].invoked[n] > i
                   /\ TablesOf(components[schema[c].invoked[n]]) # <<>>

\* What a creator invoked at position i finds in the registry: the
\* components of the creators before it.
RegistryDuringOpen ==
    /\ opening # 0 => components = SubSeq(creators, 1, opening - 1)
    /\ opening = 0 => components = creators
    /\ \A i \in DOMAIN procurerOf :
           procurerOf[i] = CreatorLookup(creators[i], SubSeq(creators, 1, i - 1))

\* C20: open invokes the creators in the given order and registers each
\* component before the next creator is invoked, so a creator's lookup
\* yields the matching components of the creators before it, in
\* registration order; after open returned no operation changes the
\* registry.
C20_OpenRegistersInOrder ==
    /\ []RegistryDuringOpen
    /\ [][opening = 0 => components' = components]_vars

\* A store with a caller-supplied component was opened, the creator of the
\* IP tracking got the session store registered before it, and a
\* _populate_schema call on the store has returned.
C20_Witness ==
    /\ opening = 0
    /\ Len(components) > Len(DefaultComponents)
    /\ \E i \in DOMAIN components :
           /\ components[i].cls = "IPTrackingProcurer"
           /\ procurerOf[i] # 0
           /\ components[procurerOf[i]].cls = "AlchimiaSessionStore"
    /\ \E o \in Ops : op[o].type = "_populate_schema" /\ op[o].st = "done"

\* C21: a log_in with the username of an account and the password its
\* stored hash verifies completes by returning that account, never by
\* failing; also when the session is bound to the account already.
C21_LogInNeverFails ==
    \A o \in Ops :
        /\ op[o].type = "log_in"
        /\ op[o].st = "done"
        => \A r \in accounts :
               r.username = op[o].username /\ r.pw = op[o].pw
                   => op[o].res = Result(r.id)

\* C22: after a _populate_schema call has completed, whatever tables the
\* database had before, the tables session, account, account_session and
\* session_ip all exist.
C22_AllTablesCreated ==
    \A o \in Ops :
        op[o].type = "_populate_schema" /\ op[o].st = "done"
            => tables = AllTables

\* A sql call starts with a pooled connection in this step.
TakesPooled(c) == pc[c] = "idle" /\ pc'[c] = "beginning"

\* C23 as stated: a sql call that starts when the pool is non-empty gets
\* the connection that was returned to the pool most recently.
C23_StackDiscipline ==
    [][\A c \in Calls : TakesPooled(c) => cxn'[c] = free[Len(free)]]_vars

\* C23: the pool is a queue.  A sql call that starts when the pool is
\* non-empty takes the connection at its left end, the one returned least
\* recently, and a call that ends holding a connection puts it at the
\* right end.
C23_QueueDiscipline ==
    [][\A c \in Calls :
           /\ TakesPooled(c) => (cxn'[c] = Head(free) /\ free' = Tail(free))
           /\ (InFlight(c) /\ pc'[c] = "done")
                  => free' = Append(free, cxn[c])
      ]_vars

\* A call has started with the connection a concluded call returned before
\* the connection still in the pool was returned: the pool held both, and
\* the call took the older one.
C23_Witness ==
    \E c \in Calls : \E d \in Calls \ {c} :
        /\ pc[d] = "done"
        /\ pc[c] = "beginning"
        /\ cxn[c] = cxn[d]
        /\ free # <<>>
        /\ cxn[c] \notin RangeOf(free)

\* C24: once a sql call has concluded, its Transaction is marked
\* "committed" only if the commit succeeded, and a call that delivered a
\* result has a committed transaction.
C24_CommittedOnlyIfCommitted ==
    \A c \in Calls : pc[c] = "done" =>
        /\ stopped[c] = "committed" => dbTxn[c] = "committed"
        /\ outcome[c].k = "result" => dbTxn[c] = "committed"

\* The authorize calls application code made for the current account, and
\* the sql calls made on behalf of one of them.
AccountAuthorize(c) ==
    /\ kind[c] = "authzn"
    /\ parent[c] = 0
    /\ "ISimpleAccount" \in arg[c].ifaces
Underway(x) == pc[x] \notin {"idle", "done"}
NestedIn(c) == {d \in Calls : parent[d] = c}

\* While authorize for the current account is underway: its nested calls
\* nest one level deep and run one at a time, each while the outer call
\* holds a connection of its own, so that two connections are held at once
\* and never more; a call that finished has had both nested calls run.
C25_TwoConnections ==
    \A c \in Calls : AccountAuthorize(c) =>
        /\ \A d \in NestedIn(c) : NestedIn(d) = {}
        /\ Cardinality({d \in NestedIn(c) : Underway(d)}) <= 1
        /\ \A d \in NestedIn(c) : Underway(d) =>
               /\ pc[c] = "running"
               /\ cxn[c] # 0
               /\ cxn[d] # cxn[c]
        /\ pc[c] = "done" =>
               /\ \E d \in NestedIn(c) : kind[d] = "authzn" /\ pc[d] = "done"
               /\ \E e \in NestedIn(c) :
                      kind[e] = "authenticated_accounts" /\ pc[e] = "done"
               /\ \A d \in NestedIn(c) : cxn[d] \notin {0, cxn[c]}

\* C25: when every database operation completes, Session.authorize for the
\* current-account capability completes; its nested authorize and
\* authenticated_accounts run while the outer transaction holds its
\* connection, so two connections are held at once (never more, and never
\* fewer: one connection is not enough to finish).
C25_AuthorizeCompletes ==
    /\ []C25_TwoConnections
    /\ \A c \in Calls : (AccountAuthorize(c) /\ Underway(c)) ~> (pc[c] = "done")

\* An authorize for the current account has delivered the account; its two
\* nested calls ran on a connection other than its own.
C25_Witness ==
    \E c \in Calls :
        /\ AccountAuthorize(c)
        /\ pc[c] = "done"
        /\ outcome[c].k = "result"
        /\ outcome[c].v["ISimpleAccount"] = Account(1)
        /\ \A d \in NestedIn(c) : pc[d] = "done" /\ cxn[d] \notin {0, cxn[c]}
        /\ NestedIn(c) # {}

\* C26: in no step does the stored last_used of a (session, address) row
\* decrease.
C26_LastUsedNeverDecreases ==
    [][\A r \in sessionIP : \A n \in sessionIP' :
           (n.session = r.session /\ n.ip = r.ip)
               => n.last_used >= r.last_used]_vars

====
